---- MODULE Spec2Model ----
(***************************************************************************)
(* The source flattener of scripts/subgraphHelpers.ts: resolveFileImports  *)
(* builds the import dictionary of a root file, makeDependencyList levels  *)
(* it, and flattenFile writes the manifest, the flat file and the          *)
(* standard-json input, for each entry of a batch in turn.  The files are  *)
(* the input: what a file holds is fixed when it is first looked at.       *)
(***************************************************************************)
EXTENDS Integers, Sequences, FiniteSets, TLC

\* The flattener.
VARIABLES fs, entry, pc, dict, stack, d, deps, round, stuck, error, written, scans
\* The line scan of getFileImports on one file.
VARIABLES scanLines, scanN, scanImports, scanContent, scanMeta, scanPc
\* findInheritance on the text of one file.
VARIABLES inhLines, inhN, firstFound, inheritStr, iStart, bStart, endFound, inherits, inhPc
\* A DeployHelper, the transactions its callbacks have submitted, its files,
\* the outcome of the operation that ran last, and the view function the
\* script calls under each call id.
VARIABLES state, deployedLog, throwOnRevert, txs, files, outcome, site
VARIABLES alternativeInfoFileID, chainId, forceLoadLocal
\* callWithReference of a Multicall: its arguments, its result and where it is.
VARIABLES referenceCalls, requireSuccess, flattenedResults, mcPc
\* batchIterate: its arguments, its loop variables, where it is, and the
\* indices given to the callbacks and the batches sent so far.
VARIABLES batchLength, batchSize, batchN, batchM, batchPc, made, processed, multicalls

flattenVars == <<fs, entry, pc, dict, stack, d, deps, round, stuck, error, written, scans>>
scanVars == <<scanLines, scanN, scanImports, scanContent, scanMeta, scanPc>>
inhVars == <<inhLines, inhN, firstFound, inheritStr, iStart, bStart, endFound, inherits, inhPc>>
helperVars ==
  <<state, deployedLog, throwOnRevert, txs, files, outcome, site,
    alternativeInfoFileID, chainId, forceLoadLocal>>
\* What deploy, load, call and send read and never set.
helperSetup == <<throwOnRevert, site, alternativeInfoFileID, chainId, forceLoadLocal>>
\* What the steps of each of them leave alone.
multicallVars ==
  <<referenceCalls, requireSuccess, flattenedResults, mcPc,
    batchLength, batchSize, batchN, batchM, batchPc, made, processed, multicalls>>
besideFlatten == <<scanVars, inhVars, helperVars, multicallVars>>
besideScan == <<flattenVars, inhVars, helperVars, multicallVars>>
besideInherit == <<flattenVars, scanVars, helperVars, multicallVars>>
besideHelper == <<flattenVars, scanVars, inhVars, multicallVars>>
besideMulticall == <<flattenVars, scanVars, inhVars, helperVars>>

vars == <<flattenVars, scanVars, inhVars, helperVars, multicallVars>>

\* ---------------------------------------------------------------- bounds
\* Import statements in all the files of one file system together.
MaxEdges == 3
\* Entries of the batch handed to batchFlatten.
NEntries == 2
\* Lines of the file handed to the line scan of getFileImports.
MaxLines == 3
\* Lines of the text handed to findInheritance.
MaxDeclLines == 3
\* Transactions the callbacks of one DeployHelper submit.
MaxTx == 2
\* References in one request to callWithReference, and calls of one reference.
MaxCalls == 2
\* The length and the batch size given to batchIterate.
MaxLength == 3
MaxBatchSize == 3
\* Records in one list of the state of a helper that changes its state file.
MaxRecords == 2
\* Transactions the runs of a script that changes its state file submit.
MaxFileTx == 1
\* How many lines past the end of a file the gathering loop is followed.
MaxPastEnd == 3

\* --------------------------------------------------------- the file system
\* A path is its sequence of segments, an import specifier likewise: "./A" is
\* <<".", "A">>, "../A" is <<"..", "A">>, "@x/A" is <<"@x", "A">>.
NodeModules == "node_modules"
Contracts == "c"
Package == "@x"
RootFile == <<Contracts, "R">>

AllPaths ==
  {<<Contracts, "R">>, <<Contracts, "A">>, <<Contracts, "B">>,
   <<Contracts, "s", "A">>}

\* The import statements a file of a directory may hold.
Specifiers(dir) ==
  IF dir = <<Contracts>>
  THEN {<<".", "A">>, <<"A">>, <<"B">>, <<"s", "A">>, <<"R">>}
  ELSE {<<"..", "A">>, <<"..", "B">>}

\* The base-type lists a first contract declaration may name.
InheritLists == {<<>>, <<"A">>}

Null == <<>>

getFileName(_path) == _path[Len(_path)]

DirOf(_file) == SubSeq(_file, 1, Len(_file) - 1)

RECURSIVE SeqsUpTo(_, _)
SeqsUpTo(S, n) ==
  IF n = 0 THEN {<<>>}
  ELSE LET shorter == SeqsUpTo(S, n - 1)
       IN shorter \cup {Append(s, x) : s \in {t \in shorter : Len(t) = n - 1}, x \in S}

Unknown == [state |-> "unknown", specs |-> <<>>, inherits |-> <<>>]
Missing == [state |-> "missing", specs |-> <<>>, inherits |-> <<>>]

RECURSIVE SumLen(_, _)
SumLen(f, S) ==
  IF S = {} THEN 0
  ELSE LET p == CHOOSE q \in S : TRUE IN Len(f[p].specs) + SumLen(f, S \ {p})

TotalEdges(f) == SumLen(f, AllPaths)

\* The files a path may turn out to be, given the import statements left.
FilesAt(p, f) ==
  {[state |-> "file", specs |-> s, inherits |-> i] :
     s \in SeqsUpTo(Specifiers(DirOf(p)), MaxEdges - TotalEdges(f)), i \in InheritLists}

Range(s) == {s[i] : i \in DOMAIN s}

\* ------------------------------------------------------- string helpers
RECURSIVE Normalize(_, _)
\* What fs.realpathSync makes of a path: "x/.." is dropped.
Normalize(done, rest) ==
  IF rest = <<>> THEN done
  ELSE IF Head(rest) = ".." THEN Normalize(SubSeq(done, 1, Len(done) - 1), Tail(rest))
  ELSE Normalize(Append(done, Head(rest)), Tail(rest))

\* The three specifier classes of getFileImports: a package, "./" and the rest.
RealPath(path, iPath) ==
  IF iPath[1] = Package THEN Normalize(<<>>, <<NodeModules>> \o iPath)
  ELSE IF iPath[1] = "." THEN Normalize(<<>>, path \o Tail(iPath))
  ELSE Normalize(<<>>, path \o iPath)

\* A scan that keeps an import as often as it is written.
RemoveMultipleKeepsAll(imports) == imports

RECURSIVE RemoveMultiple(_)
RemoveMultiple(imports) ==
  IF imports = <<>> THEN <<>>
  ELSE LET front == RemoveMultiple(SubSeq(imports, 1, Len(imports) - 1))
           last == imports[Len(imports)]
       IN IF last \in Range(front) THEN front ELSE Append(front, last)

ResolvedImports(_file, f) ==
  [n \in DOMAIN f[_file].specs |-> RealPath(DirOf(_file), f[_file].specs[n])]

\* realpathSync throws on an import whose target does not exist.
ImportMissing(_file, f) ==
  \E p \in Range(ResolvedImports(_file, f)) : f[p].state = "missing"

Content(_file) == <<"content">> \o _file
Meta(_file) == <<"meta">> \o _file

getFileImports(_file, f) ==
  [content |-> Content(_file),
   meta |-> Meta(_file),
   imports |-> RemoveMultiple(ResolvedImports(_file, f)),
   inherits |-> f[_file].inherits]

\* ------------------------------------------------------------- sorting
Min(S) == CHOOSE x \in S : \A y \in S : x <= y
Max(S) == CHOOSE x \in S : \A y \in S : x >= y

RECURSIVE SortLevels(_, _, _)
SortLevels(s, levels, asc) ==
  IF levels = {} THEN <<>>
  ELSE LET m == IF asc THEN Min(levels) ELSE Max(levels)
       IN SelectSeq(s, LAMBDA i : i.level = m) \o SortLevels(s, levels \ {m}, asc)

\* Array.prototype.sort((a, b) => a.level - b.level), which is stable.
SortAscending(s) == SortLevels(s, {s[n].level : n \in DOMAIN s}, TRUE)
\* Array.prototype.sort((a, b) => b.level - a.level).
SortDescending(s) == SortLevels(s, {s[n].level : n \in DOMAIN s}, FALSE)

\* ------------------------------------------------------------ the state
NoResult ==
  [path |-> <<>>, file |-> "", content |-> Null, meta |-> Null,
   requires |-> <<>>, inherits |-> <<>>]

NoFiles == [files |-> {}, info |-> <<>>, flat |-> <<>>, json |-> <<>>]

\* How often getFileImports has read each file for the entry at hand.
NoScans == [p \in AllPaths |-> 0]

\* No file is being scanned.
ScanIdle ==
  /\ scanLines = <<>>
  /\ scanN = 0
  /\ scanImports = <<>>
  /\ scanContent = <<>>
  /\ scanMeta = <<>>
  /\ scanPc = "idle"

\* No text is being searched for base types.
InheritIdle ==
  /\ inhLines = <<>>
  /\ inhN = 0
  /\ firstFound = FALSE
  /\ inheritStr = <<>>
  /\ iStart = 0
  /\ bStart = 0
  /\ endFound = FALSE
  /\ inherits = <<>>
  /\ inhPc = "idle"

\* The state of a DeployHelper after its constructor.
NoState == [deployments |-> <<>>, calls |-> <<>>, sends |-> <<>>]

NoOutcome ==
  [op |-> "none", id |-> "", ret |-> [kind |-> "none", value |-> 0], invoked |-> 0, asked |-> 0]

\* alternativeInfoFileID when it is undefined, and the ids given to
\* useAlternativeInfoFileID.
NoFileID == "undefined"
FileIDs == {"x"}

\* The chain of a hardhat node, and another chain.
HardhatChain == 31337
Chains == {1, HardhatChain}

\* The deployments directory of the chain before anything is saved: a file
\* that does not exist reads as no records.
NoFilesSaved == [info |-> NoState, x |-> NoState, deployed |-> <<>>]

\* No DeployHelper is in use.
HelperIdle ==
  /\ state = NoState
  /\ deployedLog = <<>>
  /\ throwOnRevert = TRUE
  /\ txs = <<>>
  /\ files = NoFilesSaved
  /\ outcome = NoOutcome
  /\ site = <<>>
  /\ alternativeInfoFileID = NoFileID
  /\ chainId = 1
  /\ forceLoadLocal = FALSE

\* No Multicall is in use.
MulticallIdle ==
  /\ referenceCalls = <<>>
  /\ requireSuccess = TRUE
  /\ flattenedResults = <<>>
  /\ mcPc = "idle"
  /\ batchLength = 0
  /\ batchSize = 0
  /\ batchN = 0
  /\ batchM = 0
  /\ batchPc = "idle"
  /\ made = <<>>
  /\ processed = <<>>
  /\ multicalls = <<>>

Init ==
  /\ ScanIdle
  /\ InheritIdle
  /\ HelperIdle
  /\ MulticallIdle
  /\ fs \in {[p \in AllPaths |-> IF p = RootFile THEN r ELSE Unknown] :
               r \in FilesAt(RootFile, [p \in AllPaths |-> Unknown]) \cup {Missing}}
  /\ entry = 1
  /\ pc = "start"
  /\ dict = <<>>
  /\ stack = <<>>
  /\ d = NoResult
  /\ deps = <<>>
  /\ round = 0
  /\ stuck = <<>>
  /\ error = "none"
  /\ written = [e \in 1 .. NEntries |-> NoFiles]
  /\ scans = NoScans

\* No batch is being flattened.
FlattenIdle ==
  /\ fs = [p \in AllPaths |-> Unknown]
  /\ entry = 1
  /\ pc = "idle"
  /\ dict = <<>>
  /\ stack = <<>>
  /\ d = NoResult
  /\ deps = <<>>
  /\ round = 0
  /\ stuck = <<>>
  /\ error = "none"
  /\ written = [e \in 1 .. NEntries |-> NoFiles]
  /\ scans = NoScans

Top == stack[Len(stack)]

\* A file named by an import of the file being read comes into existence, or
\* turns out not to exist, when it is first looked at.
FirstUnknown(_file) ==
  LET r == ResolvedImports(_file, fs)
      n == Min({k \in DOMAIN r : fs[r[k]].state = "unknown"})
  IN r[n]

HasUnknown(_file) ==
  \E p \in Range(ResolvedImports(_file, fs)) : fs[p].state = "unknown"

EnvFile ==
  /\ pc = "resolve"
  /\ Top.st = "enter"
  /\ fs[Top.path].state = "file"
  /\ HasUnknown(Top.path)
  /\ LET p == FirstUnknown(Top.path)
     IN \E r \in FilesAt(p, fs) \cup {Missing} : fs' = [fs EXCEPT ![p] = r]
  /\ UNCHANGED <<entry, pc, dict, stack, d, deps, round, stuck, error, written, scans>>
  /\ UNCHANGED besideFlatten

\* ------------------------------------------------------------ flattenFile
Frame(_file, _level) ==
  [path |-> _file, level |-> _level, st |-> "enter", imports |-> <<>>,
   inherits |-> <<>>, myImports |-> <<>>, k |-> 1]

\* A flattenFile that keeps the dictionary of the entry before.
FlattenFileStartKeepsDictionary ==
  /\ pc = "start"
  /\ entry <= NEntries
  /\ pc' = "resolve"
  /\ stack' = <<Frame(RootFile, 0)>>
  /\ d' = NoResult
  /\ deps' = <<>>
  /\ round' = 0
  /\ scans' = NoScans
  /\ UNCHANGED <<fs, entry, dict, stuck, error, written>>
  /\ UNCHANGED besideFlatten

\* flattenFile up to its call of resolveFileImports with a fresh dictionary.
FlattenFileStart ==
  /\ pc = "start"
  /\ entry <= NEntries
  /\ pc' = "resolve"
  /\ dict' = <<>>
  /\ stack' = <<Frame(RootFile, 0)>>
  /\ d' = NoResult
  /\ deps' = <<>>
  /\ round' = 0
  /\ scans' = NoScans
  /\ UNCHANGED <<fs, entry, stuck, error, written>>
  /\ UNCHANGED besideFlatten

\* ------------------------------------------------------ resolveFileImports
\* _importDictionary.find(m => m.path === i): the first match, 0 when none.
FindPath(_importDictionary, i) ==
  IF \E n \in DOMAIN _importDictionary : _importDictionary[n].path = i
  THEN Min({n \in DOMAIN _importDictionary : _importDictionary[n].path = i})
  ELSE 0

\* The "check level/resolve" loop: a registered import has its level raised.
CheckLevel(_importDictionary, imports, _level) ==
  [n \in DOMAIN _importDictionary |->
     IF \E i \in Range(imports) : FindPath(_importDictionary, i) = n
     THEN [_importDictionary[n] EXCEPT !.level = Max({@, _level})]
     ELSE _importDictionary[n]]

\* ... and an import that is not registered is left to resolve.
Unresolved(_importDictionary, imports) ==
  SelectSeq(imports, LAMBDA i : FindPath(_importDictionary, i) = 0)

\* The nodes pushed for the unresolved imports; id stands for the identity of
\* the object, which myImports and the dictionary share.
NewImports(resolve, _level, base) ==
  [n \in DOMAIN resolve |->
     [id |-> base + n, path |-> resolve[n], file |-> getFileName(resolve[n]),
      content |-> Null, meta |-> Null, level |-> _level,
      requires |-> <<>>, inherits |-> <<>>]]

Throw(what) ==
  /\ pc' = "crashed"
  /\ error' = what
  /\ stack' = <<>>

\* realpathSync of the file itself, or of one of its imports, throws.
ResolveFail ==
  /\ pc = "resolve"
  /\ Top.st = "enter"
  /\ \/ fs[Top.path].state = "missing"
     \/ /\ fs[Top.path].state = "file"
        /\ ~HasUnknown(Top.path)
        /\ ImportMissing(Top.path, fs)
  /\ Throw("resolution")
  /\ scans' = IF fs[Top.path].state = "file" THEN [scans EXCEPT ![Top.path] = @ + 1] ELSE scans
  /\ UNCHANGED <<fs, entry, dict, d, deps, round, stuck, written>>
  /\ UNCHANGED besideFlatten

\* resolveFileImports from its entry to the push of the nodes to resolve.
ResolveEnter ==
  /\ pc = "resolve"
  /\ Top.st = "enter"
  /\ fs[Top.path].state = "file"
  /\ ~HasUnknown(Top.path)
  /\ ~ImportMissing(Top.path, fs)
  /\ LET data == getFileImports(Top.path, fs)
         resolve == Unresolved(dict, data.imports)
         myImports == NewImports(resolve, Top.level, Len(dict))
     IN /\ dict' = CheckLevel(dict, data.imports, Top.level) \o myImports
        /\ stack' = [stack EXCEPT ![Len(stack)] =
                       [@ EXCEPT !.st = "children", !.imports = data.imports,
                                 !.inherits = data.inherits,
                                 !.myImports = [n \in DOMAIN myImports |-> myImports[n].id]]]
  /\ scans' = [scans EXCEPT ![Top.path] = @ + 1]
  /\ UNCHANGED <<fs, entry, pc, d, deps, round, stuck, error, written>>
  /\ UNCHANGED besideFlatten

NodeOf(_importDictionary, id) ==
  _importDictionary[CHOOSE n \in DOMAIN _importDictionary : _importDictionary[n].id = id]

\* myImports.forEach: the recursive call for the next pushed node.
ResolveChild ==
  /\ pc = "resolve"
  /\ Top.st = "children"
  /\ Top.k <= Len(Top.myImports)
  /\ stack' = Append(stack, Frame(NodeOf(dict, Top.myImports[Top.k]).path, Top.level + 1))
  /\ UNCHANGED <<fs, entry, pc, dict, d, deps, round, stuck, error, written, scans>>
  /\ UNCHANGED besideFlatten

Resolved(frame) ==
  [path |-> frame.path, file |-> getFileName(frame.path),
   content |-> Content(frame.path), meta |-> Meta(frame.path),
   requires |-> frame.imports, inherits |-> frame.inherits]

\* i.content = d.content; i.meta = d.meta; i.requires = d.requires; ...
Assign(_importDictionary, id, r) ==
  [n \in DOMAIN _importDictionary |->
     IF _importDictionary[n].id = id
     THEN [_importDictionary[n] EXCEPT !.content = r.content, !.meta = r.meta,
                                       !.requires = r.requires, !.inherits = r.inherits]
     ELSE _importDictionary[n]]

\* The end of resolveFileImports: the dictionary is sorted by level and the
\* caller copies the result into the node it resolved.
ResolveReturn ==
  /\ pc = "resolve"
  /\ Top.st = "children"
  /\ Top.k > Len(Top.myImports)
  /\ IF Len(stack) = 1
     THEN /\ dict' = SortAscending(dict)
          /\ d' = Resolved(Top)
          /\ stack' = <<>>
          /\ pc' = "dependency"
     ELSE LET parent == stack[Len(stack) - 1]
          IN /\ dict' = Assign(SortAscending(dict), parent.myImports[parent.k], Resolved(Top))
             /\ stack' = [SubSeq(stack, 1, Len(stack) - 1) EXCEPT ![Len(stack) - 1].k = @ + 1]
             /\ UNCHANGED <<d, pc, scans>>
  /\ UNCHANGED <<fs, entry, deps, round, stuck, error, written, scans>>
  /\ UNCHANGED besideFlatten

\* ------------------------------------------------------ makeDependencyList
RECURSIVE RemoveFirst(_, _)
\* requires.splice(requires.indexOf(_dependency), 1)
RemoveFirst(requires, _dependency) ==
  IF requires = <<>> THEN <<>>
  ELSE IF Head(requires) = _dependency THEN Tail(requires)
  ELSE <<Head(requires)>> \o RemoveFirst(Tail(requires), _dependency)

removeDependency(_importDictionary, _dependency) ==
  [n \in DOMAIN _importDictionary |->
     [_importDictionary[n] EXCEPT !.requires = RemoveFirst(@, _dependency)]]

RECURSIVE RemoveDependencies(_, _)
\* noDeps.forEach(d => removeDependency(_importDictionary, d.path))
RemoveDependencies(_importDictionary, noDeps) ==
  IF noDeps = <<>> THEN _importDictionary
  ELSE RemoveDependencies(removeDependency(_importDictionary, Head(noDeps).path), Tail(noDeps))

\* A filter that lets a node with one requirement left through.
WithoutRequiresButOne(_importDictionary) ==
  SelectSeq(_importDictionary, LAMBDA i : Len(i.requires) <= 1)

\* "find without dependency"
WithoutRequires(_importDictionary) ==
  SelectSeq(_importDictionary, LAMBDA i : Len(i.requires) = 0)

\* A filter that lets a node with one base type through.
WithoutInheritsButOne(_importDictionary) ==
  SelectSeq(_importDictionary, LAMBDA i : Len(i.inherits) <= 1)

\* "check inherits"
WithoutInherits(_importDictionary) ==
  SelectSeq(_importDictionary, LAMBDA i : Len(i.inherits) = 0)

\* The nodes of a list in the order in which they were pushed.
RECURSIVE ByDiscovery(_)
ByDiscovery(list) ==
  IF list = <<>> THEN <<>>
  ELSE LET first == CHOOSE n \in DOMAIN list : \A k \in DOMAIN list : list[n].id <= list[k].id
       IN <<list[first]>> \o ByDiscovery(SelectSeq(list, LAMBDA i : i.id # list[first].id))

\* Candidates taken in the order of their discovery.
NoDepsByDiscovery(_importDictionary) ==
  ByDiscovery(IF Len(WithoutRequires(_importDictionary)) = 0
              THEN WithoutInherits(_importDictionary)
              ELSE WithoutRequires(_importDictionary))

NoDeps(_importDictionary) ==
  IF Len(WithoutRequires(_importDictionary)) = 0
  THEN WithoutInherits(_importDictionary)
  ELSE WithoutRequires(_importDictionary)

\* A removal that leaves every node in the list.
NotSpliced(_importDictionary, noDeps) == _importDictionary

\* "remove from list"
Spliced(_importDictionary, noDeps) ==
  SelectSeq(_importDictionary,
            LAMBDA i : \A n \in DOMAIN noDeps : noDeps[n].id # i.id)

\* One round of the while loop that finds nodes to emit.
DependencyRound ==
  /\ pc = "dependency"
  /\ Len(dict) > 0
  /\ Len(NoDeps(dict)) > 0
  /\ deps' = deps \o NoDeps(dict)
  /\ dict' = RemoveDependencies(Spliced(dict, NoDeps(dict)), NoDeps(dict))
  /\ round' = round + 1
  /\ UNCHANGED <<fs, entry, pc, stack, d, stuck, error, written, scans>>
  /\ UNCHANGED besideFlatten

\* dict.map(d => ({ path: d.path, level: d.level })) to <out>.info.json
Manifest(_importDictionary) ==
  [n \in DOMAIN _importDictionary |->
     [path |-> _importDictionary[n].path, level |-> _importDictionary[n].level]]

\* A failing round that leaves a manifest of the remaining nodes behind.
DependencyFailAfterManifest ==
  /\ pc = "dependency"
  /\ Len(dict) > 0
  /\ Len(NoDeps(dict)) = 0
  /\ stuck' = [n \in DOMAIN dict |->
                 [id |-> dict[n].file, dependency |-> dict[n].requires,
                  inherits |-> dict[n].inherits]]
  /\ written' = [written EXCEPT ![entry].files = {"info"}, ![entry].info = Manifest(dict)]
  /\ Throw("cyclic")
  /\ UNCHANGED <<fs, entry, dict, d, deps, round, scans>>
  /\ UNCHANGED besideFlatten

\* The round that finds none: the remaining nodes are logged, "throw false".
DependencyFail ==
  /\ pc = "dependency"
  /\ Len(dict) > 0
  /\ Len(NoDeps(dict)) = 0
  /\ stuck' = [n \in DOMAIN dict |->
                 [id |-> dict[n].file, dependency |-> dict[n].requires,
                  inherits |-> dict[n].inherits]]
  /\ Throw("cyclic")
  /\ UNCHANGED <<fs, entry, dict, d, deps, round, written, scans>>
  /\ UNCHANGED besideFlatten

\* Levels that rise with the position in deps.
AssignLevelsRising(list) ==
  [n \in DOMAIN list |-> [list[n] EXCEPT !.level = n]]

\* Levels that count down to zero.
AssignLevelsToZero(list) ==
  [n \in DOMAIN list |-> [list[n] EXCEPT !.level = Len(list) - n]]

\* deps[n].level = deps.length - n, for the 0-based n of the code.
AssignLevels(list) ==
  [n \in DOMAIN list |-> [list[n] EXCEPT !.level = Len(list) - (n - 1)]]

\* After the loop: levels, the sort by level and the push back.
DependencyDone ==
  /\ pc = "dependency"
  /\ Len(dict) = 0
  /\ deps' = SortAscending(AssignLevels(deps))
  /\ dict' = dict \o SortAscending(AssignLevels(deps))
  /\ pc' = "info"
  /\ UNCHANGED <<fs, entry, stack, d, round, stuck, error, written, scans>>
  /\ UNCHANGED besideFlatten

\* ----------------------------------------------------------- the artifacts
WriteInfo ==
  /\ pc = "info"
  /\ written' = [written EXCEPT ![entry].files = @ \cup {"info"},
                                ![entry].info = Manifest(dict)]
  /\ pc' = "flat"
  /\ UNCHANGED <<fs, entry, dict, stack, d, deps, round, stuck, error, scans>>
  /\ UNCHANGED besideFlatten

\* The flat text as its parts: the root's meta, a block per node, the root's
\* content.
FlatText(_data, _importDictionary) ==
  <<[kind |-> "meta", file |-> "", text |-> _data.meta]>>
  \o [n \in DOMAIN _importDictionary |->
        [kind |-> "file", file |-> _importDictionary[n].file,
         text |-> _importDictionary[n].content]]
  \o <<[kind |-> "content", file |-> "", text |-> _data.content]>>

makeFlatFile ==
  /\ pc = "flat"
  /\ dict' = SortDescending(dict)
  /\ written' = [written EXCEPT ![entry].files = @ \cup {"sol"},
                                ![entry].flat = FlatText(d, SortDescending(dict))]
  /\ pc' = "json"
  /\ UNCHANGED <<fs, entry, stack, d, deps, round, stuck, error, scans>>
  /\ UNCHANGED besideFlatten

makeShortImports(_data) ==
  [n \in DOMAIN _data.requires |-> getFileName(_data.requires[n])]

SourceOf(_data) ==
  [meta |-> _data.meta, imports |-> makeShortImports(_data), content |-> _data.content]

\* The key under which makeJsonFile stores a node.
SourceKey(_data) == _data.file

\* json.sources: the root is stored first and every node after it, a later
\* store under the same key replacing an earlier one.
Sources(_data, _importDictionary) ==
  LET keys == {SourceKey(_data)} \cup
              {SourceKey(_importDictionary[n]) : n \in DOMAIN _importDictionary}
      last(key) == Max({n \in DOMAIN _importDictionary :
                          SourceKey(_importDictionary[n]) = key})
  IN [key \in keys |->
        IF \E n \in DOMAIN _importDictionary : SourceKey(_importDictionary[n]) = key
        THEN SourceOf(_importDictionary[last(key)])
        ELSE SourceOf(_data)]

\* makeJsonFile, and the end of this entry of the batch.
makeJsonFile ==
  /\ pc = "json"
  /\ written' = [written EXCEPT ![entry].files = @ \cup {"json"},
                                ![entry].json = Sources(d, dict)]
  /\ pc' = "start"
  /\ entry' = entry + 1
  /\ UNCHANGED <<fs, dict, stack, d, deps, round, stuck, error, scans>>
  /\ UNCHANGED besideFlatten

\* batchFlatten after its last entry: process.exit(0).
BatchExit ==
  /\ pc = "start"
  /\ entry > NEntries
  /\ pc' = "exit"
  /\ UNCHANGED <<fs, entry, dict, stack, d, deps, round, stuck, error, written, scans>>
  /\ UNCHANGED besideFlatten

Next ==
  \/ EnvFile
  \/ FlattenFileStart
  \/ ResolveFail
  \/ ResolveEnter
  \/ ResolveChild
  \/ ResolveReturn
  \/ DependencyRound
  \/ DependencyFail
  \/ DependencyDone
  \/ WriteInfo
  \/ makeFlatFile
  \/ makeJsonFile
  \/ BatchExit

Spec == Init /\ [][Next]_vars

\* makeDependencyList is synchronous: once entered, its loop keeps running
\* until it returns or throws.
Leveling == DependencyRound \/ DependencyFail \/ DependencyDone

FairSpec == Spec /\ WF_vars(Leveling)

\* ------------------------------------------------ what the claims speak of
\* The registry: the dictionary, and while makeDependencyList runs the nodes
\* it has moved to deps.
Registry == IF pc = "dependency" THEN dict \o deps ELSE dict

RegistryPaths == {Registry[n].path : n \in DOMAIN Registry}

\* The files a file imports, as its text says.
FileImports(p) ==
  IF fs[p].state = "file" THEN Range(ResolvedImports(p, fs)) ELSE {}

RECURSIVE ImportClosure(_)
ImportClosure(S) ==
  LET T == S \cup UNION {FileImports(p) : p \in S}
  IN IF T = S THEN S ELSE ImportClosure(T)

OnImportCycle(p) == p \in ImportClosure(FileImports(p))

AcyclicRegistry == \A p \in RegistryPaths : ~OnImportCycle(p)

\* makeDependencyList has returned and the artifacts are being written.
Levelled == pc \in {"info", "flat", "json"}

\* Every import of the node at a position is at an earlier position.
ImportsFirst(order, i) ==
  \A b \in FileImports(order[i].path) :
     \E j \in 1 .. i - 1 : order[j].path = b

\* The unordered nodes an inheritance list names by file name.
InheritRestricted(i, unordered) ==
  {m \in Range(unordered) : m.file \in Range(i.inherits)}

\* C1: on an acyclic import graph the nodes enter deps, the emission order of
\* makeDependencyList, each after every node it imports.
C1_EmissionIsTopological ==
  (pc = "dependency" /\ AcyclicRegistry)
    => \A i \in DOMAIN deps : ImportsFirst(deps, i)

C1_Witness ==
  /\ pc = "dependency"
  /\ Len(dict) = 0
  /\ AcyclicRegistry
  /\ \E a, b, c \in RegistryPaths : b \in FileImports(a) /\ c \in FileImports(b)

\* C2 as stated: on an acyclic registry the nodes listed by non-decreasing
\* level have every imported node before its importer.
C2_NonDecreasingLevelOrder ==
  (Levelled /\ AcyclicRegistry)
    => \A i \in DOMAIN dict : ImportsFirst(SortAscending(dict), i)

\* C2 amended: on an acyclic registry the nodes listed by non-increasing level
\* have every imported node before its importer, which has a lower level.
C2_NonIncreasingLevelOrder ==
  (Levelled /\ AcyclicRegistry)
    => /\ \A i \in DOMAIN dict : ImportsFirst(SortDescending(dict), i)
       /\ \A a, b \in Range(dict) : b.path \in FileImports(a.path) => b.level > a.level

C2_Witness ==
  /\ pc = "info"
  /\ AcyclicRegistry
  /\ \E a, b \in Range(dict) : b.path \in FileImports(a.path) /\ b.level > a.level + 1

\* C3: after makeDependencyList has returned, a node on no import cycle comes
\* after every node it imports in the emission order (highest level first).
C3_OffCycleNodeAfterImports ==
  Levelled
    => \A i \in DOMAIN dict :
         ~OnImportCycle(SortDescending(dict)[i].path)
           => ImportsFirst(SortDescending(dict), i)

\* The two nodes import each other and each has a base type among the two.
UnbrokenCycle(a, b) ==
  /\ a.path # b.path
  /\ InheritRestricted(a, <<a, b>>) # {}
  /\ InheritRestricted(b, <<a, b>>) # {}
  /\ b.path \in FileImports(a.path)
  /\ a.path \in FileImports(b.path)

\* The file names the throw of makeDependencyList logs.
StuckFiles == {stuck[n].id : n \in DOMAIN stuck}

StalledOnCycle ==
  \E a, b \in Range(dict) :
     a.path # b.path /\ b.path \in FileImports(a.path) /\ a.path \in FileImports(b.path)

\* C5: a round that stalls on two nodes importing each other, with no node
\* free of unordered imports, selects exactly the unordered nodes none of whose
\* base types is unordered, and fails only when there is none.
C5_FallbackSelectsRestricted ==
  [][(pc = "dependency" /\ Len(WithoutRequires(dict)) = 0 /\ StalledOnCycle)
       => LET sel == SelectSeq(dict, LAMBDA i : InheritRestricted(i, dict) = {})
          IN IF Len(sel) = 0
             THEN pc' = "crashed"
             ELSE pc' = "dependency" /\ deps' = deps \o sel]_vars

\* C6: two entries of a batch for the same root file, each resolved from an
\* empty dictionary over the same files, write the same manifest.
C6_SameManifest ==
  \A e1, e2 \in 1 .. NEntries :
     ("info" \in written[e1].files /\ "info" \in written[e2].files)
       => written[e1].info = written[e2].info

C6_Witness ==
  /\ \A e \in 1 .. NEntries : "info" \in written[e].files
  /\ Len(written[1].info) >= 2

\* C7: no two nodes of the registry have the same path, at any point.
C7_UniquePaths ==
  \A i, j \in DOMAIN Registry : Registry[i].path = Registry[j].path => i = j

\* A registered file that two import statements spell differently.
C7_Witness ==
  /\ pc = "dependency"
  /\ \E p \in RegistryPaths : \E q1, q2 \in RegistryPaths \cup {RootFile} :
       \E n1 \in DOMAIN fs[q1].specs, n2 \in DOMAIN fs[q2].specs :
          /\ fs[q1].specs[n1] # fs[q2].specs[n2]
          /\ RealPath(DirOf(q1), fs[q1].specs[n1]) = p
          /\ RealPath(DirOf(q2), fs[q2].specs[n2]) = p

\* The flat file of the entry has just been written; makeFlatFile has left the
\* dictionary in the order of its blocks.
FlatWritten == pc = "json"

\* The last artifact of the previous entry has been written and the
\* dictionary and the root's data are still those of that entry.
JsonWritten == pc \in {"start", "exit"} /\ entry > 1 /\ "json" \in written[entry - 1].files

\* The root and the nodes of the registry, by path and file name.
Stored ==
  {[path |-> dict[n].path, file |-> dict[n].file] : n \in DOMAIN dict}
  \cup {[path |-> d.path, file |-> d.file]}

\* C8: the flat text is the root's header, one block per registry node in the
\* order of emission, then the root's body, and it holds the body of every
\* file of the import closure, the root's too, exactly once.
C8_FlatHoldsEachBodyOnce ==
  FlatWritten
    => LET flat == written[entry].flat
       IN /\ Len(flat) = Len(dict) + 2
          /\ flat[1].kind = "meta" /\ flat[1].text = Meta(RootFile)
          /\ \A n \in DOMAIN dict :
               flat[n + 1].kind = "file" /\ flat[n + 1].text = Content(dict[n].path)
          /\ flat[Len(flat)].kind = "content" /\ flat[Len(flat)].text = Content(RootFile)
          /\ \A p \in ImportClosure({RootFile}) :
               Cardinality({k \in DOMAIN flat :
                              flat[k].kind # "meta" /\ flat[k].text = Content(p)}) = 1

\* C9: the sources of the compiler input hold one entry for the root and one
\* for every registry node, and two of them with different paths never have
\* the same key.
C9_OneSourcePerPath ==
  JsonWritten
    => /\ \A a, b \in Stored : a.path # b.path => SourceKey(a) # SourceKey(b)
       /\ Cardinality(DOMAIN written[entry - 1].json)
            = Cardinality({a.path : a \in Stored})

\* C10: in the compiler input the source of the root and of every registry
\* node holds one short import per file the node imports.
C10_SourcesKeepImports ==
  JsonWritten
    => \A a \in Stored :
         LET imports == RemoveMultiple(ResolvedImports(a.path, fs))
         IN written[entry - 1].json[SourceKey(a)].imports
              = [n \in DOMAIN imports |-> getFileName(imports[n])]

\* C11: leveling N nodes gives the node at the 0-based emission position p the
\* level N - p, so the levels are N, N-1, ..., 1 without repeats, and the
\* manifest then written lists the nodes by ascending level 1, ..., N, which is
\* the emission order reversed.
C11_LevelsCountDown ==
  [][/\ (pc = "dependency" /\ pc' = "info")
          => LET N == Len(deps)
             IN /\ Len(dict') = N
                /\ \A p \in 0 .. N - 1 :
                     \E m \in Range(dict') : m.id = deps[p + 1].id /\ m.level = N - p
                /\ {dict'[n].level : n \in DOMAIN dict'} = 1 .. N
                /\ \A p \in 0 .. N - 1 : dict'[N - p].id = deps[p + 1].id
     /\ (pc = "info" /\ pc' = "flat")
          => LET info == written'[entry].info
             IN /\ Len(info) = Len(dict)
                /\ \A k \in DOMAIN info :
                     /\ info[k].level = k
                     /\ \E m \in Range(dict) : m.level = k /\ m.path = info[k].path]_vars

C11_Witness ==
  /\ pc = "flat"
  /\ Len(written[entry].info) >= 3
  /\ \E a, b \in Range(dict) : a.level = b.level + 1 /\ a.path \in FileImports(b.path)

\* C12: while an entry is resolved and leveled, and after either has failed,
\* none of its three artifacts is written.
C12_NoArtifactOnFailure ==
  pc \in {"resolve", "dependency", "crashed"} => written[entry] = NoFiles

\* A resolution that fails with part of the registry built.
C12_Witness ==
  /\ pc = "crashed"
  /\ error = "resolution"
  /\ Len(dict) >= 2

\* C13: a resolution error of an entry that is not the last leaves the batch
\* able to go on to the entries after it.
C13_BatchGoesOnAfterFailure ==
  (pc = "crashed" /\ error = "resolution" /\ entry < NEntries) => ENABLED Next

\* C14: during the resolve of one entry getFileImports reads every file at
\* most once.
C14_ScannedAtMostOnce ==
  \A p \in AllPaths : scans[p] <= 1

\* resolveFileImports has just returned to flattenFile.
ResolveReturned == pc = "dependency" /\ round = 0

\* C15: after resolve has returned, every entry of a node's requires is the
\* path of a node of the registry and every entry of its inherits names one.
C15_RequirementsRegistered ==
  ResolveReturned
    => \A i \in Range(dict) :
         /\ Range(i.requires) \subseteq RegistryPaths
         /\ \A b \in Range(i.inherits) : \E m \in Range(dict) : m.file = b

\* C16: a root that imports itself, and that no other file imports, resolves
\* to the registry of the same root without the self-import: the root is no
\* node of it and no node requires itself.
C16_SelfImportAddsNothing ==
  (/\ ResolveReturned
   /\ RootFile \in FileImports(RootFile)
   /\ \A p \in RegistryPaths \ {RootFile} : RootFile \notin FileImports(p))
    => /\ RootFile \notin RegistryPaths
       /\ \A i \in Range(dict) : i.path \notin Range(i.requires)

\* ------------------------------------------- getFileImports, line by line
\* A line is the sequence of its pieces: the keyword "import", the ";" that
\* ends a statement, the two markers, a blank " " and other text "x".
ScanLineSet ==
  {<<>>, <<"x">>, <<"x", ";">>, <<"import", ";">>, <<"import">>,
   <<"SPDX-License">>, <<"x", "pragma solidity", ";">>, <<" ", "import", ";">>,
   <<"SPDX-License", "pragma solidity">>}

\* read.toString()...split('\n') has at least one line.
ScanFiles == SeqsUpTo(ScanLineSet, MaxLines) \ {<<>>}

\* l.indexOf('import') === 0
StartsWithImport(l) == Len(l) > 0 /\ l[1] = "import"

\* l.includes(piece)
Includes(l, piece) == piece \in Range(l)

\* A meta test that knows the license marker only.
IsLicense(l) == Includes(l, "SPDX-License")

\* The two tests that send a line to meta.
IsMeta(l) == Includes(l, "SPDX-License") \/ Includes(l, "pragma solidity")

\* "gather import lines": the line on which the statement begun at n ends, 0
\* when no line from n on holds a ";".
GatherEnd(_lines, n) ==
  IF \E m \in n .. Len(_lines) : Includes(_lines[m], ";")
  THEN Min({m \in n .. Len(_lines) : Includes(_lines[m], ";")})
  ELSE 0

RECURSIVE Gathered(_, _, _)
\* importLine += lines[n]
Gathered(_lines, n, m) ==
  IF n > m THEN <<>> ELSE _lines[n] \o Gathered(_lines, n + 1, m)

RECURSIVE TrimFront(_)
\* while (content.length > 0 && content[0] === '') content.splice(0, 1)
TrimFront(_content) ==
  IF Len(_content) > 0 /\ _content[1] = <<>> THEN TrimFront(Tail(_content)) ELSE _content

RECURSIVE TrimBack(_)
\* while (... content[content.length - 1] === '') content.splice(content.length - 1, 1)
TrimBack(_content) ==
  IF Len(_content) > 0 /\ _content[Len(_content)] = <<>>
  THEN TrimBack(SubSeq(_content, 1, Len(_content) - 1))
  ELSE _content

ScanInit ==
  /\ FlattenIdle
  /\ InheritIdle
  /\ HelperIdle
  /\ MulticallIdle
  /\ scanLines \in ScanFiles
  /\ scanN = 1
  /\ scanImports = <<>>
  /\ scanContent = <<>>
  /\ scanMeta = <<>>
  /\ scanPc = "collect"

\* A line that begins with import, and the lines up to its ";".
CollectImport ==
  /\ scanPc = "collect"
  /\ scanN <= Len(scanLines)
  /\ StartsWithImport(scanLines[scanN])
  /\ GatherEnd(scanLines, scanN) # 0
  /\ scanImports' = Append(scanImports, Gathered(scanLines, scanN, GatherEnd(scanLines, scanN)))
  /\ scanN' = GatherEnd(scanLines, scanN) + 1
  /\ UNCHANGED <<scanLines, scanContent, scanMeta, scanPc>>
  /\ UNCHANGED besideScan

\* No ";" up to the end of the file: the gathering loop takes every line
\* that is left and then lines[lines.length], which is undefined.
CollectUnterminated ==
  /\ scanPc = "collect"
  /\ scanN <= Len(scanLines)
  /\ StartsWithImport(scanLines[scanN])
  /\ GatherEnd(scanLines, scanN) = 0
  /\ scanPc' = "unterminated"
  /\ scanN' = Len(scanLines) + 1
  /\ UNCHANGED <<scanLines, scanImports, scanContent, scanMeta>>
  /\ UNCHANGED besideScan

\* ... and goes on: "undefined" holds no ";", so n += 1 and the next
\* undefined is appended. The model follows it MaxPastEnd lines past the end.
GatherPastEnd ==
  /\ scanPc = "unterminated"
  /\ scanN < Len(scanLines) + MaxPastEnd
  /\ scanN' = scanN + 1
  /\ UNCHANGED <<scanLines, scanImports, scanContent, scanMeta, scanPc>>
  /\ UNCHANGED besideScan

\* "license" and "pragma"
CollectMeta ==
  /\ scanPc = "collect"
  /\ scanN <= Len(scanLines)
  /\ ~StartsWithImport(scanLines[scanN])
  /\ IsMeta(scanLines[scanN])
  /\ scanMeta' = Append(scanMeta, scanLines[scanN])
  /\ scanN' = scanN + 1
  /\ UNCHANGED <<scanLines, scanImports, scanContent, scanPc>>
  /\ UNCHANGED besideScan

\* "content"
CollectContent ==
  /\ scanPc = "collect"
  /\ scanN <= Len(scanLines)
  /\ ~StartsWithImport(scanLines[scanN])
  /\ ~IsMeta(scanLines[scanN])
  /\ scanContent' = Append(scanContent, scanLines[scanN])
  /\ scanN' = scanN + 1
  /\ UNCHANGED <<scanLines, scanImports, scanMeta, scanPc>>
  /\ UNCHANGED besideScan

\* "trim content"
TrimContent ==
  /\ scanPc = "collect"
  /\ scanN > Len(scanLines)
  /\ scanContent' = TrimBack(TrimFront(scanContent))
  /\ scanPc' = "trimmed"
  /\ UNCHANGED <<scanLines, scanN, scanImports, scanMeta>>
  /\ UNCHANGED besideScan

\* "remove multiple entries" and the return.
ScanReturn ==
  /\ scanPc = "trimmed"
  /\ scanImports' = RemoveMultiple(scanImports)
  /\ scanPc' = "done"
  /\ UNCHANGED <<scanLines, scanN, scanContent, scanMeta>>
  /\ UNCHANGED besideScan

ScanNext ==
  \/ CollectImport
  \/ CollectUnterminated
  \/ GatherPastEnd
  \/ CollectMeta
  \/ CollectContent
  \/ TrimContent
  \/ ScanReturn

ScanSpec == ScanInit /\ [][ScanNext]_vars

RECURSIVE StatementLines(_, _)
\* The lines of import statements from line k on: a line that begins with
\* the import keyword and the lines after it up to the terminator.
StatementLines(_lines, k) ==
  IF k > Len(_lines) THEN {}
  ELSE IF StartsWithImport(_lines[k])
       THEN IF GatherEnd(_lines, k) = 0 THEN k .. Len(_lines)
            ELSE (k .. GatherEnd(_lines, k)) \cup StatementLines(_lines, GatherEnd(_lines, k) + 1)
       ELSE StatementLines(_lines, k + 1)

\* The lines of a file at the positions of a set, in their order.
LinesAt(_lines, S) ==
  LET at(i) == CHOOSE k \in S : Cardinality({j \in S : j < k}) = i - 1
  IN [i \in 1 .. Cardinality(S) |-> _lines[at(i)]]

Marked(l) == "SPDX-License" \in Range(l) \/ "pragma solidity" \in Range(l)

\* A sequence of lines without the empty lines at its two ends.
WithoutBlankEnds(s) ==
  LET full == {k \in DOMAIN s : s[k] # <<>>}
  IN IF full = {} THEN <<>> ELSE SubSeq(s, Min(full), Max(full))

\* C17: of the lines outside import statements, those holding a license or a
\* version-pragma marker are the header, in their order and wherever they are,
\* and none of them is in the body; the others are the body, in their order,
\* without the blank lines at its two ends.
C17_MarkedLinesAreHeader ==
  scanPc = "done"
    => LET other == DOMAIN scanLines \ StatementLines(scanLines, 1)
       IN /\ scanMeta = LinesAt(scanLines, {k \in other : Marked(scanLines[k])})
          /\ scanContent
               = WithoutBlankEnds(LinesAt(scanLines, {k \in other : ~Marked(scanLines[k])}))
          /\ \A k \in DOMAIN scanContent : ~Marked(scanContent[k])

\* Two marked lines after a line of the body.
C17_Witness ==
  /\ scanPc = "done"
  /\ Len(scanMeta) = 2
  /\ ~Marked(scanLines[1]) /\ ~StartsWithImport(scanLines[1])
  /\ scanContent # <<>>

\* ----------------------------------------------------------- findInheritance
\* A line of text is the sequence of its characters; positions count from 0
\* as in the code.
InheritLineSet ==
  {<<"c", "o", "n", "t", "r", "a", "c", "t", " ", "B", " ", "i", "s", " ", "A", " ", "{">>,
   <<"c", "o", "n", "t", "r", "a", "c", "t", " ", "B", " ", "i", "s", " ", "A">>,
   <<"c", "o", "n", "t", "r", "a", "c", "t", " ", "B">>,
   <<" ", "i", "s", " ", "A">>,
   <<" ", "i", "s", " ", "A", " ", "{">>,
   <<"{">>,
   <<"c", "o", "n", "t", "r", "a", "c", "t", " ", "B", " ", "{">>,
   <<"l", "i", "b", "r", "a", "r", "y", " ", "L", " ", "{">>,
   <<"i", "m", "p", "o", "r", "t", " ", "A", ";">>,
   <<" ", "A", ",", " ", "C", " ", "{">>}

InheritTexts == SeqsUpTo(InheritLineSet, MaxDeclLines) \ {<<>>}

\* String.prototype.indexOf(sub, from): -1 when sub does not occur.
IndexOf(l, sub, from) ==
  LET at == {i \in Max({from, 0}) .. Len(l) - Len(sub) : SubSeq(l, i + 1, i + Len(sub)) = sub}
  IN IF at = {} THEN -1 ELSE Min(at)

\* String.prototype.substring(a, b): both ends are clamped to the string and
\* swapped when the first is the larger.
Substring(l, a, b) ==
  LET ca == Min({Max({a, 0}), Len(l)})
      cb == Min({Max({b, 0}), Len(l)})
  IN SubSeq(l, Min({ca, cb}) + 1, Max({ca, cb}))

\* substring(a) and substring(a, undefined)
SubstringFrom(l, a) == Substring(l, a, Len(l))

\* replaceAll(' ', '') and the like
Strip(l) == SelectSeq(l, LAMBDA c : c \notin {" ", "\t", "\r", "\n"})

RECURSIVE Split(_)
\* String.prototype.split(',')
Split(l) ==
  LET at == IndexOf(l, <<",">>, 0)
  IN IF at = -1 THEN <<l>>
     ELSE <<Substring(l, 0, at)>> \o Split(SubstringFrom(l, at + 1))

Library == <<"l", "i", "b", "r", "a", "r", "y", " ">>
ImportWord == <<"i", "m", "p", "o", "r", "t", " ">>
Contract == <<"c", "o", "n", "t", "r", "a", "c", "t">>
ContractWord == <<"c", "o", "n", "t", "r", "a", "c", "t", " ">>
IsMarker == <<" ", "i", "s">>
Brace == <<"{">>

InheritInit ==
  /\ FlattenIdle
  /\ ScanIdle
  /\ HelperIdle
  /\ MulticallIdle
  /\ inhLines \in InheritTexts
  /\ inhN = 0
  /\ firstFound = FALSE
  /\ inheritStr = <<>>
  /\ iStart = 0
  /\ bStart = 0
  /\ endFound = FALSE
  /\ inherits = <<>>
  /\ inhPc = "loop"

\* const l = lines[n]
InhLine == inhLines[inhN + 1]

InLoop == inhPc = "loop" /\ inhN < Len(inhLines)

\* The line is the first to hold a contract declaration.
IsFirst(l) == IndexOf(l, ImportWord, 0) # 0 /\ IndexOf(l, Contract, 0) # -1

\* The line is searched: the declaration is on it or on a line before it.
Searched(l) == firstFound \/ (IndexOf(l, Library, 0) # 0 /\ IsFirst(l))

\* cStart, after the "check" of the line.
CStart(l) == IF firstFound THEN 0 ELSE IndexOf(l, ContractWord, 0) + 8

\* The first declaration is a library: break.
LibraryBreak ==
  /\ InLoop
  /\ ~firstFound
  /\ IndexOf(InhLine, Library, 0) = 0
  /\ inhPc' = "list"
  /\ UNCHANGED <<inhLines, inhN, firstFound, inheritStr, iStart, bStart, endFound, inherits>>
  /\ UNCHANGED besideInherit

\* No declaration yet: continue.
SkipLine ==
  /\ InLoop
  /\ ~Searched(InhLine)
  /\ IndexOf(InhLine, Library, 0) # 0
  /\ inhN' = inhN + 1
  /\ UNCHANGED <<inhLines, firstFound, inheritStr, iStart, bStart, endFound, inherits, inhPc>>
  /\ UNCHANGED besideInherit

\* Neither ' is' nor '{' on the line: it is added to inheritStr.
AccumulateLine ==
  /\ InLoop
  /\ Searched(InhLine)
  /\ IndexOf(InhLine, IsMarker, CStart(InhLine)) = -1
  /\ IndexOf(InhLine, Brace, CStart(InhLine)) = -1
  /\ firstFound' = TRUE
  /\ iStart' = -1
  /\ bStart' = -1
  /\ inheritStr' = inheritStr \o SubstringFrom(InhLine, CStart(InhLine))
  /\ inhN' = inhN + 1
  /\ UNCHANGED <<inhLines, endFound, inherits, inhPc>>
  /\ UNCHANGED besideInherit

\* The first line with ' is' or '{', the '{' being further right: return [].
ReturnEmpty ==
  /\ InLoop
  /\ Searched(InhLine)
  /\ LET i == IndexOf(InhLine, IsMarker, CStart(InhLine))
         b == IndexOf(InhLine, Brace, CStart(InhLine))
     IN /\ i # -1 \/ b # -1
        /\ ~endFound
        /\ b > i
        /\ iStart' = i
        /\ bStart' = b
  /\ firstFound' = TRUE
  /\ endFound' = TRUE
  /\ inherits' = <<>>
  /\ inhPc' = "done"
  /\ UNCHANGED <<inhLines, inhN, inheritStr>>
  /\ UNCHANGED besideInherit

\* The first line with ' is' or '{' otherwise: its part is added, break.
EndBreak ==
  /\ InLoop
  /\ Searched(InhLine)
  /\ LET i == IndexOf(InhLine, IsMarker, CStart(InhLine))
         b == IndexOf(InhLine, Brace, CStart(InhLine))
     IN /\ i # -1 \/ b # -1
        /\ ~(~endFound /\ b > i)
        /\ iStart' = i
        /\ bStart' = b
        /\ inheritStr' = inheritStr \o Substring(InhLine, IF i = -1 THEN 0 ELSE i + 3,
                                                 IF b = -1 THEN Len(InhLine) ELSE b)
  /\ firstFound' = TRUE
  /\ endFound' = TRUE
  /\ inhPc' = "list"
  /\ UNCHANGED <<inhLines, inhN, inherits>>
  /\ UNCHANGED besideInherit

\* The for loop runs out of lines.
LoopEnd ==
  /\ inhPc = "loop"
  /\ inhN >= Len(inhLines)
  /\ inhPc' = "list"
  /\ UNCHANGED <<inhLines, inhN, firstFound, inheritStr, iStart, bStart, endFound, inherits>>
  /\ UNCHANGED besideInherit

\* "get inheritance list"
InheritsList == Strip(Substring(inheritStr, iStart + 3, bStart))

MakeList ==
  /\ inhPc = "list"
  /\ inherits' = IF InheritsList = <<>> THEN <<>> ELSE Split(InheritsList)
  /\ inhPc' = "done"
  /\ UNCHANGED <<inhLines, inhN, firstFound, inheritStr, iStart, bStart, endFound>>
  /\ UNCHANGED besideInherit

InheritNext ==
  \/ LibraryBreak
  \/ SkipLine
  \/ AccumulateLine
  \/ ReturnEmpty
  \/ EndBreak
  \/ LoopEnd
  \/ MakeList

InheritSpec == InheritInit /\ [][InheritNext]_vars

\* The first line that declares a library or a contract, 0 when there is none.
DeclLine(_lines) ==
  LET decl == {k \in DOMAIN _lines :
                 IndexOf(_lines[k], Library, 0) = 0 \/ IsFirst(_lines[k])}
  IN IF decl = {} THEN 0 ELSE Min(decl)

RECURSIVE JoinLines(_)
JoinLines(_lines) ==
  IF _lines = <<>> THEN <<>>
  ELSE IF Len(_lines) = 1 THEN _lines[1]
  ELSE _lines[1] \o <<"\n">> \o JoinLines(Tail(_lines))

\* The text from the name of the first contract on.
DeclText(_lines) ==
  LET k == DeclLine(_lines)
  IN JoinLines(<<SubstringFrom(_lines[k], IndexOf(_lines[k], ContractWord, 0) + 8)>>
               \o SubSeq(_lines, k + 1, Len(_lines)))

\* The names between the inheritance marker and the opening brace.
NamesBeforeBrace(_lines) ==
  LET text == DeclText(_lines)
      i == IndexOf(text, IsMarker, 0)
      b == IndexOf(text, Brace, 0)
  IN IF i = -1 \/ i > b THEN <<>> ELSE Split(Strip(Substring(text, i + 3, b)))

\* C18: for the first declaration of a text findInheritance returns no name
\* when it is a library or when its opening brace comes with no inheritance
\* marker before it, and otherwise the comma-separated names between the
\* marker and the brace, in order, on one line or over several.
C18_NamesBetweenMarkerAndBrace ==
  (inhPc = "done" /\ DeclLine(inhLines) # 0)
    => IF IndexOf(inhLines[DeclLine(inhLines)], Library, 0) = 0
       THEN inherits = <<>>
       ELSE IndexOf(DeclText(inhLines), Brace, 0) # -1
              => inherits = NamesBeforeBrace(inhLines)

\* --------------------------------------------------------------- DeployHelper
\* The ids deploy, load and send are called with; NoId is '' and undefined.
Ids == {"a", "b"}
NoId == ""

\* What becomes of a submitted transaction: mined with status 1, mined and
\* reverted, or never mined and unknown to the provider afterwards.
Fates == {"ok", "reverted", "dropped"}

\* address?: string when it is undefined.
NoAddress == 0

\* state.<list>.find(i => i.id === _id): the position of the first match, 0
\* for null.
FindId(list, _id) ==
  IF _id = NoId THEN 0
  ELSE IF \E n \in DOMAIN list : list[n].id = _id
       THEN Min({n \in DOMAIN list : list[n].id = _id})
       ELSE 0

\* A test that takes every id, the empty one too, for an id to record under.
HasAnyId(_id) == TRUE

\* const hasId = (_id ?? '') !== ''
HasId(_id) == _id # NoId

findDeployment(_state, _id) == FindId(_state.deployments, _id)

findCall(_state, _id) == FindId(_state.calls, _id)

findSend(_state, _id) == FindId(_state.sends, _id)

\* A setDeploymentHash that records nothing.
forgetDeploymentHash(_state, _id, _txHash) == _state

setDeploymentHash(_state, _id, _txHash) ==
  IF findDeployment(_state, _id) = 0
  THEN [_state EXCEPT !.deployments =
          Append(@, [id |-> _id, txHash |-> _txHash, address |-> NoAddress,
                     alternativeInfoFileID |-> alternativeInfoFileID])]
  ELSE _state

setDeploymentAddress(_state, _id, _address) ==
  IF findDeployment(_state, _id) # 0
  THEN [_state EXCEPT !.deployments[findDeployment(_state, _id)].address = _address]
  ELSE _state

\* JavaScript values: a string is the sequence of its characters, an object
\* its keys in the order Object.keys gives them and the value under each key.
Undefined == [t |-> "undefined"]
NullValue == [t |-> "null"]
Num(n) == [t |-> "number", num |-> n]
Bool(b) == [t |-> "boolean", bool |-> b]
Str(chars) == [t |-> "string", chars |-> chars]
Big(n) == [t |-> "bigint", big |-> n]
Arr(items) == [t |-> "array", items |-> items]
Obj(keys, fields) == [t |-> "object", keys |-> keys, fields |-> fields]
EmptyObj == Obj(<<>>, <<>>)

\* typeof v === 'object'
TypeofObject(v) == v.t \in {"object", "array"}

\* An array index as a key, and the keys that are array indices.
IndexKeys == <<"0", "1", "2", "3">>
IndexKey(n) == IndexKeys[n + 1]
IsIndexKey(k) == \E n \in DOMAIN IndexKeys : IndexKeys[n] = k
IndexOfKey(k) == CHOOSE n \in DOMAIN IndexKeys : IndexKeys[n] = k

\* obj[k]: undefined for a key the object does not have.
GetKey(obj, k) ==
  IF obj.t = "object" /\ k \in DOMAIN obj.fields THEN obj.fields[k] ELSE Undefined

\* Where a new key comes in Object.keys: an index before every greater index
\* and every name, a name last.
KeyPosition(keys, k) ==
  IF IsIndexKey(k)
  THEN 1 + Cardinality({n \in DOMAIN keys : IsIndexKey(keys[n]) /\ IndexOfKey(keys[n]) < IndexOfKey(k)})
  ELSE Len(keys) + 1

\* obj[k] = v
SetKey(obj, k, v) ==
  IF k \in DOMAIN obj.fields
  THEN Obj(obj.keys, [obj.fields EXCEPT ![k] = v])
  ELSE Obj(SubSeq(obj.keys, 1, KeyPosition(obj.keys, k) - 1) \o <<k>>
             \o SubSeq(obj.keys, KeyPosition(obj.keys, k), Len(obj.keys)),
           [j \in DOMAIN obj.fields \cup {k} |-> IF j = k THEN v ELSE obj.fields[j]])

\* n.toString(10) of a big integer, and BigInt(s) of such a string.
DigitChars == <<"0", "1", "2", "3", "4", "5", "6", "7", "8", "9">>

RECURSIVE Digits(_)
Digits(n) ==
  IF n < 10 THEN <<DigitChars[n + 1]>>
  ELSE Digits(n \div 10) \o <<DigitChars[(n % 10) + 1]>>

ToString10(n) == IF n < 0 THEN <<"-">> \o Digits(-n) ELSE Digits(n)

DigitValue(c) == (CHOOSE n \in DOMAIN DigitChars : DigitChars[n] = c) - 1

RECURSIVE ParseDigits(_)
ParseDigits(chars) ==
  IF chars = <<>> THEN 0
  ELSE 10 * ParseDigits(SubSeq(chars, 1, Len(chars) - 1)) + DigitValue(chars[Len(chars)])

BigInt(chars) ==
  IF chars # <<>> /\ chars[1] = "-"
  THEN -ParseDigits(SubSeq(chars, 2, Len(chars)))
  ELSE ParseDigits(chars)

\* The $type marks of a serialized value.
TypeBigInt == Str(<<"B", "i", "g", "I", "n", "t">>)
TypeArray == Str(<<"a", "r", "r", "a", "y">>)
TypeStruct == Str(<<"s", "t", "r", "u", "c", "t">>)

\* ethers ParamType: baseType, name ('' for none), arrayChildren (none or
\* one) and components; null is NoParamType.
ParamType(baseType, name, arrayChildren, components) ==
  [baseType |-> baseType, name |-> name, arrayChildren |-> arrayChildren,
   components |-> components]
NoParamType == ParamType("null", "", <<>>, <<>>)
ArrayChildren(_paramType) ==
  IF _paramType.arrayChildren = <<>> THEN NoParamType ELSE _paramType.arrayChildren[1]

\* ethers FunctionFragment: its outputs; null is NoFragment.
Fragment(outputs) == [null |-> FALSE, outputs |-> outputs]
NoFragment == [null |-> TRUE, outputs |-> <<>>]

\* keys.map((k, i) => [k, i])
KeyIndex(keys) ==
  Obj(keys, [k \in {keys[n] : n \in DOMAIN keys} |->
               Num((CHOOSE n \in DOMAIN keys : keys[n] = k) - 1)])

RECURSIVE serializeCallResult(_)
serializeCallResult(_data) ==
  IF _data.t \in {"number", "string", "boolean"} THEN _data
  ELSE IF _data.t = "bigint"
  THEN Obj(<<"value", "$type">>,
           ("value" :> Str(ToString10(_data.big))) @@ ("$type" :> TypeBigInt))
  ELSE IF _data.t = "array"
  THEN Obj(<<"value", "$type">>,
           ("value" :> Arr([n \in DOMAIN _data.items |-> serializeCallResult(_data.items[n])]))
             @@ ("$type" :> TypeArray))
  ELSE Obj(<<"value", "$keys", "$type">>,
           ("value" :> Obj(_data.keys,
                           [k \in DOMAIN _data.fields |-> serializeCallResult(_data.fields[k])]))
             @@ ("$keys" :> KeyIndex(_data.keys))
             @@ ("$type" :> TypeStruct))

\* items[n] of an array, undefined past its end.
ItemAt(items, n) == IF n \in DOMAIN items THEN items[n] ELSE Undefined

\* for (n ...) { obj[n] = values[n]; if (params[n].name) obj[params[n].name] = obj[n] }
RECURSIVE NamedItems(_, _, _)
NamedItems(values, params, n) ==
  IF n = 0 THEN EmptyObj
  ELSE LET obj == SetKey(NamedItems(values, params, n - 1), IndexKey(n - 1), values[n])
       IN IF params[n].name # "" THEN SetKey(obj, params[n].name, values[n]) ELSE obj

\* for (n ...) obj[n] = obj[params[n].name]
RECURSIVE IndexedKeys(_, _, _)
IndexedKeys(obj, params, n) ==
  IF n = 0 THEN obj
  ELSE LET before == IndexedKeys(obj, params, n - 1)
       IN SetKey(before, IndexKey(n - 1), GetKey(before, params[n].name))

RECURSIVE deserializeCallResult(_, _, _)
deserializeCallResult(_data, _functionFragment, _paramType) ==
  IF ~TypeofObject(_data) THEN _data
  ELSE IF GetKey(_data, "$type") = TypeBigInt
  THEN Big(BigInt(_data.fields["value"].chars))
  ELSE IF GetKey(_data, "$type") = TypeArray
  THEN LET value == _data.fields["value"].items
           os == _functionFragment.outputs
           plain == Arr([n \in DOMAIN value |->
                           deserializeCallResult(value[n], NoFragment, NoParamType)])
       IN IF _paramType # NoParamType
          THEN IF _paramType.baseType = "array"
               THEN Arr([n \in DOMAIN value |->
                           deserializeCallResult(value[n], _functionFragment,
                                                 ArrayChildren(_paramType))])
               ELSE plain
          ELSE IF ~_functionFragment.null /\ Len(os) >= 1
          THEN IF Len(os) = 1 /\ os[1].baseType = "array"
               THEN Arr([n \in DOMAIN value |->
                           deserializeCallResult(value[n], _functionFragment,
                                                 ArrayChildren(os[1]))])
               ELSE NamedItems([n \in DOMAIN os |->
                                  deserializeCallResult(ItemAt(value, n), _functionFragment, os[n])],
                               os, Len(os))
          ELSE plain
  ELSE IF GetKey(_data, "$type") = TypeStruct
  THEN LET struct == _data.fields["value"]
           obj == Obj(struct.keys,
                      [k \in DOMAIN struct.fields |->
                         deserializeCallResult(struct.fields[k], NoFragment, NoParamType)])
       IN IF _paramType.baseType = "tuple"
          THEN IndexedKeys(obj, _paramType.components, Len(_paramType.components))
          ELSE IF ~_functionFragment.null /\ Len(_functionFragment.outputs) > 1
          THEN IndexedKeys(obj, _functionFragment.outputs, Len(_functionFragment.outputs))
          ELSE obj
  ELSE NullValue

setCallResult(_state, _id, _result) ==
  IF findCall(_state, _id) = 0
  THEN [_state EXCEPT !.calls =
          Append(@, [id |-> _id, result |-> serializeCallResult(_result),
                     alternativeInfoFileID |-> alternativeInfoFileID])]
  ELSE _state

setSendHash(_state, _id, _txHash, _retry) ==
  IF findSend(_state, _id) = 0
  THEN [_state EXCEPT !.sends =
          Append(@, [id |-> _id, txHash |-> _txHash, success |-> FALSE,
                     alternativeInfoFileID |-> alternativeInfoFileID])]
  ELSE IF _retry
       THEN [_state EXCEPT !.sends[findSend(_state, _id)].txHash = _txHash]
       ELSE _state

setSendSuccess(_state, _id) ==
  IF findSend(_state, _id) # 0
  THEN [_state EXCEPT !.sends[findSend(_state, _id)].success = TRUE]
  ELSE _state

\* generateInfoFileName: the file of the id in use.
InfoFileName(_alternativeInfoFileID) ==
  IF _alternativeInfoFileID = NoFileID THEN "info" ELSE _alternativeInfoFileID

\* list.filter(i => i.alternativeInfoFileID === this.alternativeInfoFileID)
\*     .map(i => ({...i, alternativeInfoFileID: undefined}))
OfFile(list, _alternativeInfoFileID) ==
  LET own == SelectSeq(list, LAMBDA i : i.alternativeInfoFileID = _alternativeInfoFileID)
  IN [n \in DOMAIN own |-> [own[n] EXCEPT !.alternativeInfoFileID = NoFileID]]

\* list.map(i => ({...i, alternativeInfoFileID: this.alternativeInfoFileID}))
ForFile(list, _alternativeInfoFileID) ==
  [n \in DOMAIN list |-> [list[n] EXCEPT !.alternativeInfoFileID = _alternativeInfoFileID]]

\* saveDeploymentInfo: the file of the id in use gets the records of that id,
\* deployed.json the deployed log.
Saved(_state, _deployedLog) ==
  [files EXCEPT ![InfoFileName(alternativeInfoFileID)] =
                    [deployments |-> OfFile(_state.deployments, alternativeInfoFileID),
                     calls |-> OfFile(_state.calls, alternativeInfoFileID),
                     sends |-> OfFile(_state.sends, alternativeInfoFileID)],
                !.deployed = _deployedLog]

\* A merge that adds nothing.
Unmerged(_state, _alternativeInfoFileID) == _state

\* loadDeploymentInfo(true): the records of the file of the id are added to
\* the lists, marked with the id.
Merged(_state, _alternativeInfoFileID) ==
  LET j == files[InfoFileName(_alternativeInfoFileID)]
  IN [deployments |-> _state.deployments \o ForFile(j.deployments, _alternativeInfoFileID),
      calls |-> _state.calls \o ForFile(j.calls, _alternativeInfoFileID),
      sends |-> _state.sends \o ForFile(j.sends, _alternativeInfoFileID)]

\* What an operation gives back.
Returned(kind, value) == [kind |-> kind, value |-> value]
Threw == Returned("threw", 0)
\* The operation was still waiting when the script ended.
Waiting == Returned("waiting", 0)

\* The operation that ran, what it gave back, how often it invoked its
\* callback and how often it asked the provider for a transaction.
Outcome(op, _id, ret, invoked, asked) ==
  [op |-> op, id |-> _id, ret |-> ret, invoked |-> invoked, asked |-> asked]

\* hre.ethers.provider.getTransaction(txHash) !== null
Found(_txHash) == txs[_txHash].fate # "dropped"

\* The transaction a callback submits: its hash is its position in txs, and
\* the contract a deployment creates has that number for its address.
Submitted(fate) == Append(txs, [fate |-> fate, address |-> Len(txs) + 1])

\* A view function of the script: the fragment it passes to call, and the
\* value its callback returns.
Site(fragment, result) == [fragment |-> fragment, result |-> result]

\* A function that returns a number, called without a fragment.
NumberSite == Site(NoFragment, Num(7))

Uint(name) == ParamType("uint256", name, <<>>, <<>>)
UintArray == ParamType("array", "", <<Uint("")>>, <<>>)
Pair == ParamType("tuple", "", <<>>, <<Uint("x"), Uint("y")>>)
PairArray == ParamType("array", "", <<Pair>>, <<>>)

Hi == Str(<<"h", "i">>)
Nested == Arr(<<Big(1), Arr(<<Num(2), Hi>>), Obj(<<"x">>, [x |-> Bool(FALSE)])>>)
Struct == Obj(<<"x", "y">>, [x |-> Big(-30), y |-> Arr(<<Big(105), Hi>>)])
BigPair == Arr(<<Big(1), Big(2)>>)

\* Without a fragment: every kind of value, nested. With one: the values
\* ethers gives for the outputs the fragment names.
CallSites ==
  {NumberSite,
   Site(NoFragment, Bool(TRUE)),
   Site(NoFragment, Hi),
   Site(NoFragment, Big(12)),
   Site(NoFragment, Nested),
   Site(NoFragment, Struct),
   Site(Fragment(<<Uint("")>>), Big(5)),
   Site(Fragment(<<UintArray>>), BigPair),
   Site(Fragment(<<PairArray>>), Arr(<<BigPair, BigPair>>)),
   Site(Fragment(<<Uint("x"), Uint("y")>>), BigPair),
   Site(Fragment(<<Pair>>), BigPair)}

\* The values the callbacks of the script return.
CallResults == {site[_id].result : _id \in DOMAIN site}

HelperInit ==
  /\ site = [_id \in {"a"} |-> NumberSite]
  /\ FlattenIdle
  /\ ScanIdle
  /\ InheritIdle
  /\ MulticallIdle
  /\ state = NoState
  /\ deployedLog = <<>>
  /\ throwOnRevert \in BOOLEAN
  /\ txs = <<>>
  /\ files = NoFilesSaved
  /\ outcome = NoOutcome
  /\ alternativeInfoFileID = NoFileID
  /\ chainId = 1
  /\ forceLoadLocal = FALSE

\* deploy and load, the id recorded with an address: the contract is loaded
\* from it, or getContractAt throws.
LoadRecorded(op, _id) ==
  /\ findDeployment(state, _id) # 0
  /\ state.deployments[findDeployment(state, _id)].address # NoAddress
  /\ \E loaded \in BOOLEAN :
       outcome' = Outcome(op, _id,
                          IF loaded
                          THEN Returned("contract", state.deployments[findDeployment(state, _id)].address)
                          ELSE Threw, 0, 0)
  /\ UNCHANGED <<state, deployedLog, helperSetup, txs, files>>
  /\ UNCHANGED besideHelper

\* deploy and load, the id recorded without an address and its transaction
\* mined: the address is set and the contract loaded from it.
LoadMined(op, _id) ==
  /\ findDeployment(state, _id) # 0
  /\ LET dep == state.deployments[findDeployment(state, _id)]
     IN /\ dep.address = NoAddress
        /\ Found(dep.txHash)
        /\ txs[dep.txHash].fate = "ok"
        /\ state' = setDeploymentAddress(state, _id, txs[dep.txHash].address)
        /\ deployedLog' = IF op = "deploy"
                          THEN Append(deployedLog, [log |-> _id, address |-> txs[dep.txHash].address])
                          ELSE deployedLog
        /\ files' = Saved(state', deployedLog')
        /\ \E loaded \in BOOLEAN :
             outcome' = Outcome(op, _id,
                                IF loaded THEN Returned("contract", txs[dep.txHash].address)
                                ELSE Threw, 0, 1)
  /\ UNCHANGED <<helperSetup, txs>>
  /\ UNCHANGED besideHelper

\* ... and its transaction reverted: tx.wait() throws.
LoadReverted(op, _id) ==
  /\ findDeployment(state, _id) # 0
  /\ LET dep == state.deployments[findDeployment(state, _id)]
     IN /\ dep.address = NoAddress
        /\ Found(dep.txHash)
        /\ txs[dep.txHash].fate = "reverted"
  /\ outcome' = Outcome(op, _id, Threw, 0, 1)
  /\ UNCHANGED <<state, deployedLog, helperSetup, txs, files>>
  /\ UNCHANGED besideHelper

\* One getTransaction for a record found.
AskedDeployment(_id) == IF findDeployment(state, _id) = 0 THEN 0 ELSE 1

AskedSend(_id) == IF findSend(state, _id) = 0 THEN 0 ELSE 1

\* A deploy that takes every id for one not yet deployed.
NeverDeployed(_id) == TRUE

\* No record of the id with an address, and none to come from a transaction.
NotDeployed(_id) ==
  \/ findDeployment(state, _id) = 0
  \/ /\ findDeployment(state, _id) # 0
     /\ LET dep == state.deployments[findDeployment(state, _id)]
        IN dep.address = NoAddress /\ ~Found(dep.txHash)

DeployLoad == \E _id \in Ids \cup {NoId} : LoadRecorded("deploy", _id)

DeployMined == \E _id \in Ids \cup {NoId} : LoadMined("deploy", _id)

DeployReverted == \E _id \in Ids \cup {NoId} : LoadReverted("deploy", _id)

\* deploy, the callback throws: nothing is recorded.
DeployCallbackThrows ==
  \E _id \in Ids \cup {NoId} :
     /\ NotDeployed(_id)
     /\ outcome' = Outcome("deploy", _id, Threw, 1, AskedDeployment(_id))
     /\ UNCHANGED <<state, deployedLog, helperSetup, txs, files>>
     /\ UNCHANGED besideHelper

\* deploy, the callback submits the deployment: its hash is recorded, and its
\* address when waitForDeployment returns.
DeployNew ==
  \E _id \in Ids \cup {NoId}, fate \in Fates, waited \in BOOLEAN :
     /\ NotDeployed(_id)
     /\ Len(txs) < MaxTx
     /\ fate = "dropped" => ~waited
     /\ txs' = Submitted(fate)
     /\ LET hasId == HasId(_id)
            hash == Len(txs) + 1
            hashed == IF hasId THEN setDeploymentHash(state, _id, hash) ELSE state
            deployed == waited /\ fate = "ok"
        IN /\ state' = IF deployed /\ hasId THEN setDeploymentAddress(hashed, _id, hash) ELSE hashed
           /\ deployedLog' = IF deployed /\ hasId
                             THEN Append(deployedLog, [log |-> _id, address |-> hash])
                             ELSE deployedLog
           /\ files' = IF hasId THEN Saved(state', deployedLog') ELSE files
           /\ outcome' = Outcome("deploy", _id,
                                 IF deployed THEN Returned("contract", hash)
                                 ELSE IF waited THEN Threw ELSE Waiting, 1,
                                 AskedDeployment(_id))
     /\ UNCHANGED helperSetup
     /\ UNCHANGED besideHelper

LoadLoad == \E _id \in Ids \cup {NoId} : LoadRecorded("load", _id)

LoadAfterMined == \E _id \in Ids \cup {NoId} : LoadMined("load", _id)

LoadAfterReverted == \E _id \in Ids \cup {NoId} : LoadReverted("load", _id)

\* load: "No deployment found".
LoadNotFound ==
  \E _id \in Ids \cup {NoId} :
     /\ NotDeployed(_id)
     /\ outcome' = Outcome("load", _id, Threw, 0, AskedDeployment(_id))
     /\ UNCHANGED <<state, deployedLog, helperSetup, txs, files>>
     /\ UNCHANGED besideHelper

\* call, the id recorded: "remembering".
CallRemember ==
  \E _id \in DOMAIN site :
     /\ findCall(state, _id) # 0
     /\ outcome' = Outcome("call", _id,
                           Returned("value",
                                    deserializeCallResult(state.calls[findCall(state, _id)].result,
                                                          site[_id].fragment, NoParamType)),
                           0, 0)
     /\ UNCHANGED <<state, deployedLog, helperSetup, txs, files>>
     /\ UNCHANGED besideHelper

\* call, the callback runs and its result is recorded under the id.
CallNew ==
  \E _id \in DOMAIN site \cup {NoId}, r \in CallResults :
     /\ findCall(state, _id) = 0
     /\ _id # NoId => r = site[_id].result
     /\ state' = IF HasId(_id) THEN setCallResult(state, _id, r) ELSE state
     /\ files' = IF HasId(_id) THEN Saved(state', deployedLog) ELSE files
     /\ outcome' = Outcome("call", _id, Returned("value", r), 1, 0)
     /\ UNCHANGED <<deployedLog, helperSetup, txs>>
     /\ UNCHANGED besideHelper

\* call, the callback throws.
CallThrows ==
  \E _id \in DOMAIN site \cup {NoId} :
     /\ findCall(state, _id) = 0
     /\ outcome' = Outcome("call", _id, Threw, 1, 0)
     /\ UNCHANGED <<state, deployedLog, helperSetup, txs, files>>
     /\ UNCHANGED besideHelper

\* send, the id recorded as successful: "already executed", return true.
SendSkip ==
  \E _id \in Ids \cup {NoId} :
     /\ findSend(state, _id) # 0
     /\ state.sends[findSend(state, _id)].success
     /\ outcome' = Outcome("send", _id, Returned("boolean", 1), 0, 0)
     /\ UNCHANGED <<state, deployedLog, helperSetup, txs, files>>
     /\ UNCHANGED besideHelper

\* send, the recorded transaction found and mined with status 1.
SendMined ==
  \E _id \in Ids \cup {NoId} :
     /\ findSend(state, _id) # 0
     /\ LET snd == state.sends[findSend(state, _id)]
        IN ~snd.success /\ Found(snd.txHash) /\ txs[snd.txHash].fate = "ok"
     /\ state' = setSendSuccess(state, _id)
     /\ files' = Saved(state', deployedLog)
     /\ outcome' = Outcome("send", _id, Returned("boolean", 1), 0, 1)
     /\ UNCHANGED <<deployedLog, helperSetup, txs>>
     /\ UNCHANGED besideHelper

\* A send that goes on to its callback whatever is recorded.
ResendAlways(_id, retry) == ~retry

\* The send goes on to its callback, and it is a retry.
Resend(_id, retry) ==
  \/ findSend(state, _id) = 0 /\ ~retry
  \/ /\ findSend(state, _id) # 0
     /\ LET snd == state.sends[findSend(state, _id)]
        IN /\ ~snd.success
           /\ IF Found(snd.txHash) THEN txs[snd.txHash].fate = "reverted" /\ retry ELSE ~retry

\* send, the callback throws.
SendCallbackThrows ==
  \E _id \in Ids \cup {NoId}, retry \in BOOLEAN :
     /\ Resend(_id, retry)
     /\ outcome' = Outcome("send", _id, Threw, 1, AskedSend(_id))
     /\ UNCHANGED <<state, deployedLog, helperSetup, txs, files>>
     /\ UNCHANGED besideHelper

\* send, the callback submits the transaction: its hash is recorded, and its
\* success when tx.wait() returns status 1.
SendNew ==
  \E _id \in Ids \cup {NoId}, retry \in BOOLEAN, fate \in Fates, waited \in BOOLEAN :
     /\ Resend(_id, retry)
     /\ Len(txs) < MaxTx
     /\ fate = "dropped" => ~waited
     /\ txs' = Submitted(fate)
     /\ LET hasId == HasId(_id)
            hashed == IF hasId THEN setSendHash(state, _id, Len(txs) + 1, retry) ELSE state
            executed == waited /\ fate = "ok"
        IN /\ state' = IF executed /\ hasId THEN setSendSuccess(hashed, _id) ELSE hashed
           /\ files' = IF hasId THEN Saved(state', deployedLog) ELSE files
           /\ outcome' = Outcome("send", _id,
                                 IF executed THEN Returned("boolean", 1)
                                 ELSE IF ~waited THEN Waiting
                                 ELSE IF throwOnRevert THEN Threw
                                 ELSE Returned("boolean", 0), 1, AskedSend(_id))
     /\ UNCHANGED <<deployedLog, helperSetup>>
     /\ UNCHANGED besideHelper

HelperNext ==
  \/ DeployLoad
  \/ DeployMined
  \/ DeployReverted
  \/ DeployCallbackThrows
  \/ DeployNew
  \/ LoadLoad
  \/ LoadAfterMined
  \/ LoadAfterReverted
  \/ LoadNotFound
  \/ CallRemember
  \/ CallNew
  \/ CallThrows
  \/ SendSkip
  \/ SendMined
  \/ SendCallbackThrows
  \/ SendNew

HelperSpec == HelperInit /\ [][HelperNext]_vars

\* A helper and a script that calls one view function under each id.
CallInit ==
  /\ site \in [Ids -> CallSites]
  /\ FlattenIdle
  /\ ScanIdle
  /\ InheritIdle
  /\ MulticallIdle
  /\ state = NoState
  /\ deployedLog = <<>>
  /\ throwOnRevert = TRUE
  /\ txs = <<>>
  /\ files = NoFilesSaved
  /\ outcome = NoOutcome
  /\ alternativeInfoFileID = NoFileID
  /\ chainId = 1
  /\ forceLoadLocal = FALSE

CallNext ==
  \/ CallRemember
  \/ CallNew
  \/ CallThrows

CallSpec == CallInit /\ [][CallNext]_vars

\* The send record of the id is marked successful.
Succeeded(_state, _id) ==
  findSend(_state, _id) # 0 /\ _state.sends[findSend(_state, _id)].success

\* C19: once the send record of an id is marked successful it stays so
\* through every deploy, load, call and send, and a send with that id returns
\* true, invokes no callback, asks for no transaction, and changes no record
\* and no file.
C19_SuccessfulSendIsSkipped ==
  [][\A _id \in Ids :
       Succeeded(state, _id)
         => /\ Succeeded(state', _id)
            /\ (outcome'.op = "send" /\ outcome'.id = _id)
                 => /\ outcome'.ret = Returned("boolean", 1)
                    /\ outcome'.invoked = 0
                    /\ state' = state
                    /\ files' = files
                    /\ txs' = txs]_vars

\* A send skipped after a deployment of the other id.
C19_Witness ==
  /\ outcome = Outcome("send", "a", Returned("boolean", 1), 0, 0)
  /\ Succeeded(state, "a")
  /\ findDeployment(state, "b") # 0

\* The address recorded for the id, NoAddress when there is none.
RecordedAddress(_state, _id) ==
  IF findDeployment(_state, _id) = 0 THEN NoAddress
  ELSE _state.deployments[findDeployment(_state, _id)].address

\* C20: for an id recorded with an address, deploy and load invoke no
\* callback, give back the contract at the recorded address whenever
\* getContractAt gives one, and leave the records as they are.
C20_RecordedAddressIsLoaded ==
  [][\A _id \in Ids :
       RecordedAddress(state, _id) # NoAddress
         => /\ RecordedAddress(state', _id) = RecordedAddress(state, _id)
            /\ (outcome'.op \in {"deploy", "load"} /\ outcome'.id = _id)
                 => /\ outcome'.invoked = 0
                    /\ outcome'.ret \in {Returned("contract", RecordedAddress(state, _id)), Threw}
                    /\ state' = state
                    /\ txs' = txs]_vars

\* A deploy that loads what an earlier deploy of the id recorded, after the
\* first deployment of the id was dropped.
C20_Witness ==
  /\ outcome = Outcome("deploy", "a", Returned("contract", RecordedAddress(state, "a")), 0, 0)
  /\ RecordedAddress(state, "a") # NoAddress
  /\ Len(txs) = 2

\* loadDeploymentInfo(false) of a new helper: nothing on a hardhat node, else
\* the records of info.json.
Loaded ==
  IF chainId = HardhatChain /\ ~forceLoadLocal THEN NoState
  ELSE files[InfoFileName(NoFileID)]

\* new DeployHelper(_options) and init() in a later run of the script: the
\* records are loaded from info.json, the transactions and the files stay.
NewHelper ==
  /\ alternativeInfoFileID' = NoFileID
  /\ deployedLog' = <<>>
  /\ state' = Loaded
  /\ outcome' = Outcome("init", NoId, Returned("none", 0), 0, 0)
  /\ UNCHANGED <<throwOnRevert, site, chainId, forceLoadLocal, txs, files>>
  /\ UNCHANGED besideHelper

\* useAlternativeInfoFileID with another id than the one in use: the id is
\* set, and the file of a defined id merged into the lists.
UseAlternativeInfoFileID ==
  \E _alternativeInfoFileID \in FileIDs \cup {NoFileID} :
     /\ alternativeInfoFileID # _alternativeInfoFileID
     /\ LET merged == IF _alternativeInfoFileID # NoFileID
                      THEN Merged(state, _alternativeInfoFileID)
                      ELSE state
        IN /\ Len(merged.deployments) <= MaxRecords
           /\ Len(merged.calls) <= MaxRecords
           /\ Len(merged.sends) <= MaxRecords
           /\ state' = merged
     /\ alternativeInfoFileID' = _alternativeInfoFileID
     /\ outcome' = Outcome("useAlternativeInfoFileID", _alternativeInfoFileID, Returned("none", 0), 0, 0)
     /\ UNCHANGED <<deployedLog, throwOnRevert, site, chainId, forceLoadLocal, txs, files>>
     /\ UNCHANGED besideHelper

\* useAlternativeInfoFileID with the id in use, or with 'info' or
\* 'deployed', which throws: nothing changes.
UseSameOrInvalidFileID ==
  \E _alternativeInfoFileID \in {alternativeInfoFileID, "info", "deployed"} :
     /\ outcome' = Outcome("useAlternativeInfoFileID", _alternativeInfoFileID,
                           IF _alternativeInfoFileID = alternativeInfoFileID
                           THEN Returned("none", 0) ELSE Threw, 0, 0)
     /\ UNCHANGED <<state, deployedLog, helperSetup, txs, files>>
     /\ UNCHANGED besideHelper

\* The runs of a script on one chain, with and without another state file.
FileInit ==
  /\ FlattenIdle
  /\ ScanIdle
  /\ InheritIdle
  /\ MulticallIdle
  /\ state = NoState
  /\ deployedLog = <<>>
  /\ throwOnRevert = TRUE
  /\ txs = <<>>
  /\ files = NoFilesSaved
  /\ outcome = NoOutcome
  /\ site = [_id \in {"a"} |-> NumberSite]
  /\ alternativeInfoFileID = NoFileID
  /\ chainId \in Chains
  /\ forceLoadLocal \in BOOLEAN

\* The script of these runs works with the id a, and submits MaxFileTx
\* transactions at most.
Within == outcome'.id = "a" /\ Len(txs') <= MaxFileTx

FileNext ==
  \/ NewHelper
  \/ UseAlternativeInfoFileID
  \/ UseSameOrInvalidFileID
  \/ DeployMined /\ Within
  \/ DeployNew /\ Within
  \/ CallNew /\ Within
  \/ SendMined /\ Within
  \/ SendNew /\ Within

FileSpec == FileInit /\ [][FileNext]_vars

\* C21: a deploy with an id that has no record invokes its callback once;
\* when the callback submits the deployment, the hash of that transaction is
\* recorded and saved under the id, also when the script ends before the
\* deployment completes; when the deployment completes its address is
\* recorded and saved under the id and the contract at it is returned.
C21_NewDeploymentIsRecorded ==
  [][\A _id \in Ids :
       (findDeployment(state, _id) = 0 /\ outcome'.op = "deploy" /\ outcome'.id = _id)
         => /\ outcome'.invoked = 1
            /\ txs' # txs
                 => /\ Len(txs') = Len(txs) + 1
                    /\ findDeployment(state', _id) # 0
                    /\ state'.deployments[findDeployment(state', _id)].txHash = Len(txs')
                    /\ files'.info = state'
                    /\ outcome'.ret = Waiting => RecordedAddress(state', _id) = NoAddress
                    /\ outcome'.ret.kind = "contract"
                         => /\ outcome'.ret.value = txs'[Len(txs')].address
                            /\ RecordedAddress(state', _id) = txs'[Len(txs')].address]_vars

\* A first deploy of b that returned its contract, after a deploy of a whose
\* deployment was still awaited when the script ended.
C21_Witness ==
  /\ outcome = Outcome("deploy", "b", Returned("contract", 2), 1, 0)
  /\ RecordedAddress(state, "b") = 2
  /\ findDeployment(state, "a") # 0
  /\ RecordedAddress(state, "a") = NoAddress

\* C22: a call with an id that has a recorded result invokes no callback and
\* returns the value the callback of that id returned when it was recorded.
C22_RememberedResultIsOriginal ==
  \A _id \in DOMAIN site :
     (outcome.op = "call" /\ outcome.id = _id /\ outcome.invoked = 0)
       => outcome.ret = Returned("value", site[_id].result)

\* The same when no function fragment is passed to call.
C22_RememberedWithoutFragment ==
  \A _id \in DOMAIN site :
     (outcome.op = "call" /\ outcome.id = _id /\ outcome.invoked = 0 /\ site[_id].fragment = NoFragment)
       => outcome.ret = Returned("value", site[_id].result)

\* The records of a list that a step added or changed.
Changed(before, after) ==
  {n \in DOMAIN after : n \notin DOMAIN before \/ after[n] # before[n]}

\* The record as a file holds it.
InFile(list, record) ==
  \E n \in DOMAIN list : list[n] = [record EXCEPT !.alternativeInfoFileID = NoFileID]

\* Every record the step added or changed is in the file.
WrittenTo(file) ==
  /\ \A n \in Changed(state.deployments, state'.deployments) :
        InFile(file.deployments, state'.deployments[n])
  /\ \A n \in Changed(state.calls, state'.calls) : InFile(file.calls, state'.calls[n])
  /\ \A n \in Changed(state.sends, state'.sends) : InFile(file.sends, state'.sends[n])

\* The records the step added.
Added(before, after) == {n \in DOMAIN after : n \notin DOMAIN before}

\* C23: every record a deploy, call or send adds or changes is, after the
\* operation, in the file of the alternative id in use, and in info.json when
\* none is in use.
C23_ChangesAreWritten ==
  [][outcome'.op \in {"deploy", "call", "send"}
       => WrittenTo(files'[InfoFileName(alternativeInfoFileID)])]_vars

\* The same of the records a deploy, call or send adds.
C23_NewRecordsAreWritten ==
  [][outcome'.op \in {"deploy", "call", "send"}
       => LET file == files'[InfoFileName(alternativeInfoFileID)]
          IN /\ \A n \in Added(state.deployments, state'.deployments) :
                  InFile(file.deployments, state'.deployments[n])
             /\ \A n \in Added(state.calls, state'.calls) : InFile(file.calls, state'.calls[n])
             /\ \A n \in Added(state.sends, state'.sends) : InFile(file.sends, state'.sends[n])]_vars

\* Every record of the file is in the state, whatever id it is marked with.
Holds(_state, file) ==
  /\ \A n \in DOMAIN file.deployments :
        \E m \in DOMAIN _state.deployments : InFile(<<file.deployments[n]>>, _state.deployments[m])
  /\ \A n \in DOMAIN file.calls :
        \E m \in DOMAIN _state.calls : InFile(<<file.calls[n]>>, _state.calls[m])
  /\ \A n \in DOMAIN file.sends :
        \E m \in DOMAIN _state.sends : InFile(<<file.sends[n]>>, _state.sends[m])

\* init has run, and useAlternativeInfoFileID with a defined id runs next.
InitThenAlternative ==
  /\ outcome.op = "init"
  /\ outcome'.op = "useAlternativeInfoFileID"
  /\ outcome'.id \in FileIDs

ReferenceNames == {"ETH", "USDC"}
\* The topic of a call; '' and undefined are NoTopic.
NoTopic == ""
Topics == {NoTopic, "symbol"}
\* result of a call that did not succeed.
NullResult == 0

\* The calls of the reference at position i of a request: the k-th one
\* returns 10 * i + k when it succeeds.
CallLists(i) ==
  {[k \in 1 .. len |-> [value |-> 10 * i + k, topic |-> topic[k], success |-> success[k]]] :
     len \in 0 .. MaxCalls, topic \in [1 .. MaxCalls -> Topics], success \in [1 .. MaxCalls -> BOOLEAN]}

\* createReference
createReference(reference, calls) == [reference |-> reference, calls |-> calls]

\* One reference, and two references of different names.
Requests ==
  {<<createReference(r, c)>> : r \in ReferenceNames, c \in CallLists(1)}
    \cup {<<createReference(r[1], c1), createReference(r[2], c2)>> :
            r \in {q \in ReferenceNames \X ReferenceNames : q[1] # q[2]},
            c1 \in CallLists(1), c2 \in CallLists(2)}

\* flattenedCalls after the first i references: every call with its
\* reference, and for index the length of flattenedCalls when it is pushed.
RECURSIVE FlattenedCalls(_, _)
FlattenedCalls(arr, i) ==
  IF i = 0 THEN <<>>
  ELSE LET before == FlattenedCalls(arr, i - 1)
           calls == arr[i].calls
       IN before \o [k \in DOMAIN calls |->
                       [value |-> calls[k].value, success |-> calls[k].success,
                        topic |-> calls[k].topic, reference |-> arr[i].reference,
                        index |-> Len(before) + k - 1]]

\* tryAggregate reverts when a call fails and requireSuccess is set.
Reverts(arr, _requireSuccess) ==
  _requireSuccess /\ \E n \in DOMAIN FlattenedCalls(arr, Len(arr)) :
                        ~FlattenedCalls(arr, Len(arr))[n].success

\* call: what res[index] holds for the flattened call.
ResultData(flatCall) ==
  [success |-> flatCall.success,
   returnData |-> IF flatCall.success THEN flatCall.value ELSE NullResult]

\* {} for a reference: nothing under an index, nothing under a topic.
NoResults == [index |-> <<>>, topic |-> <<>>]

\* flattenedResults after the first n flattened calls.
RECURSIVE FlattenedResults(_, _)
FlattenedResults(flat, n) ==
  IF n = 0 THEN <<>>
  ELSE LET before == FlattenedResults(flat, n - 1)
           flatCall == flat[n]
           resultData == ResultData(flatCall)
           result == IF resultData.success THEN resultData.returnData ELSE NullResult
           refResult == IF flatCall.reference \in DOMAIN before
                        THEN before[flatCall.reference] ELSE NoResults
           indexed == [refResult EXCEPT !.index = (flatCall.index :> result) @@ @]
           withTopic == IF flatCall.topic # NoTopic
                        THEN [indexed EXCEPT !.topic = (flatCall.topic :> result) @@ @]
                        ELSE indexed
       IN (flatCall.reference :> withTopic) @@ before

callWithReference(arr) ==
  FlattenedResults(FlattenedCalls(arr, Len(arr)), Len(FlattenedCalls(arr, Len(arr))))

\* Nothing of batchIterate is running.
BatchIdle ==
  /\ batchLength = 0
  /\ batchSize = 0
  /\ batchN = 0
  /\ batchM = 0
  /\ batchPc = "idle"
  /\ made = <<>>
  /\ processed = <<>>
  /\ multicalls = <<>>

batchVars == <<batchLength, batchSize, batchN, batchM, batchPc, made, processed, multicalls>>

MulticallInit ==
  /\ FlattenIdle
  /\ ScanIdle
  /\ InheritIdle
  /\ HelperIdle
  /\ BatchIdle
  /\ referenceCalls \in Requests
  /\ requireSuccess \in BOOLEAN
  /\ flattenedResults = <<>>
  /\ mcPc = "start"

\* callWithReference returns its result.
CallWithReference ==
  /\ mcPc = "start"
  /\ ~Reverts(referenceCalls, requireSuccess)
  /\ flattenedResults' = callWithReference(referenceCalls)
  /\ mcPc' = "returned"
  /\ UNCHANGED <<referenceCalls, requireSuccess, batchVars>>
  /\ UNCHANGED besideMulticall

\* rawCall throws.
CallWithReferenceThrows ==
  /\ mcPc = "start"
  /\ Reverts(referenceCalls, requireSuccess)
  /\ mcPc' = "threw"
  /\ UNCHANGED <<referenceCalls, requireSuccess, flattenedResults, batchVars>>
  /\ UNCHANGED besideMulticall

MulticallNext ==
  \/ CallWithReference
  \/ CallWithReferenceThrows

MulticallSpec == MulticallInit /\ [][MulticallNext]_vars

\* What the call gives: its value, null when it failed.
ResultOf(call) == IF call.success THEN call.value ELSE NullResult

\* C25: in the result of callWithReference, for every reference of the
\* request, the entry under k of that reference is the result of the k-th call
\* (counted from 0) of the call list of that reference.
C25_IndexWithinReference ==
  mcPc = "returned"
    => \A i \in DOMAIN referenceCalls :
         \A k \in DOMAIN referenceCalls[i].calls :
            /\ referenceCalls[i].reference \in DOMAIN flattenedResults
            /\ (k - 1) \in DOMAIN flattenedResults[referenceCalls[i].reference].index
            /\ flattenedResults[referenceCalls[i].reference].index[k - 1]
                 = ResultOf(referenceCalls[i].calls[k])

\* The same of the first reference of the request.
C25_IndexWithinFirstReference ==
  mcPc = "returned"
    => \A k \in DOMAIN referenceCalls[1].calls :
          /\ referenceCalls[1].reference \in DOMAIN flattenedResults
          /\ (k - 1) \in DOMAIN flattenedResults[referenceCalls[1].reference].index
          /\ flattenedResults[referenceCalls[1].reference].index[k - 1]
               = ResultOf(referenceCalls[1].calls[k])

\* ---------------------------------------------------------------- batchIterate
\* references of batchIterate.
BatchReferences == <<"ETH", "USDC">>

\* Multicalls of one batchIterate: more are sent only when batchSize is 0 and
\* the loop never ends.
MaxMulticalls == MaxLength + 1

\* An end that is not cut at length.
EndPastLength == batchN + batchSize

\* const end = Math.min(n + batchSize, length)
End == Min({batchN + batchSize, batchLength})

\* The callback of the script: it adds one call for the index to the
\* reference the index stands for.
MadeCall(_referenceCalls, index, success) ==
  LET i == (index % Len(BatchReferences)) + 1
  IN [_referenceCalls EXCEPT ![i].calls =
        Append(@, [value |-> index + 1, topic |-> NoTopic, success |-> success])]

BatchInit ==
  /\ FlattenIdle
  /\ ScanIdle
  /\ InheritIdle
  /\ HelperIdle
  /\ batchLength \in 0 .. MaxLength
  /\ batchSize \in 0 .. MaxBatchSize
  /\ requireSuccess \in BOOLEAN
  /\ referenceCalls = <<>>
  /\ flattenedResults = <<>>
  /\ mcPc = "idle"
  /\ batchN = 0
  /\ batchM = 0
  /\ batchPc = "loop"
  /\ made = <<>>
  /\ processed = <<>>
  /\ multicalls = <<>>

\* n < length: the references are made anew, with no calls.
BatchBegin ==
  /\ batchPc = "loop"
  /\ batchN < batchLength
  /\ Len(multicalls) < MaxMulticalls
  /\ referenceCalls' = [i \in DOMAIN BatchReferences |-> createReference(BatchReferences[i], <<>>)]
  /\ batchM' = batchN
  /\ batchPc' = "make"
  /\ UNCHANGED <<batchLength, batchSize, batchN, made, processed, multicalls>>
  /\ UNCHANGED <<requireSuccess, flattenedResults, mcPc>>
  /\ UNCHANGED besideMulticall

\* The loop is over.
BatchDone ==
  /\ batchPc = "loop"
  /\ ~(batchN < batchLength)
  /\ batchPc' = "done"
  /\ UNCHANGED <<batchLength, batchSize, batchN, batchM, made, processed, multicalls>>
  /\ UNCHANGED <<referenceCalls, requireSuccess, flattenedResults, mcPc>>
  /\ UNCHANGED besideMulticall

\* await callbackMakeCalls(referenceMap, m)
MakeCalls ==
  /\ batchPc = "make"
  /\ batchM < End
  /\ made' = Append(made, batchM)
  /\ \/ /\ \E success \in BOOLEAN : referenceCalls' = MadeCall(referenceCalls, batchM, success)
        /\ batchM' = batchM + 1
        /\ UNCHANGED batchPc
     \/ /\ batchPc' = "threw"
        /\ UNCHANGED <<referenceCalls, batchM>>
  /\ UNCHANGED <<batchLength, batchSize, batchN, processed, multicalls>>
  /\ UNCHANGED <<requireSuccess, flattenedResults, mcPc>>
  /\ UNCHANGED besideMulticall

\* await multicall.callWithReference(referenceCalls, requireSuccess)
BatchMulticall ==
  /\ batchPc = "make"
  /\ ~(batchM < End)
  /\ multicalls' = Append(multicalls, [start |-> batchN, end |-> End])
  /\ IF Reverts(referenceCalls, requireSuccess)
     THEN /\ batchPc' = "threw"
          /\ UNCHANGED <<flattenedResults, batchM>>
     ELSE /\ flattenedResults' = callWithReference(referenceCalls)
          /\ batchM' = batchN
          /\ batchPc' = "process"
  /\ UNCHANGED <<batchLength, batchSize, batchN, made, processed>>
  /\ UNCHANGED <<referenceCalls, requireSuccess, mcPc>>
  /\ UNCHANGED besideMulticall

\* await callbackProcess(res, m)
Process ==
  /\ batchPc = "process"
  /\ batchM < End
  /\ processed' = Append(processed, batchM)
  /\ \/ batchM' = batchM + 1 /\ UNCHANGED batchPc
     \/ batchPc' = "threw" /\ UNCHANGED batchM
  /\ UNCHANGED <<batchLength, batchSize, batchN, made, multicalls>>
  /\ UNCHANGED <<referenceCalls, requireSuccess, flattenedResults, mcPc>>
  /\ UNCHANGED besideMulticall

\* callbackEnd, when there is one, and n += batchSize.
BatchEnd ==
  /\ batchPc = "process"
  /\ ~(batchM < End)
  /\ \/ batchN' = batchN + batchSize /\ batchPc' = "loop"
     \/ batchPc' = "threw" /\ UNCHANGED batchN
  /\ UNCHANGED <<batchLength, batchSize, batchM, made, processed, multicalls>>
  /\ UNCHANGED <<referenceCalls, requireSuccess, flattenedResults, mcPc>>
  /\ UNCHANGED besideMulticall

BatchNext ==
  \/ BatchBegin
  \/ BatchDone
  \/ MakeCalls
  \/ BatchMulticall
  \/ Process
  \/ BatchEnd

BatchSpec == BatchInit /\ [][BatchNext]_vars

\* Every await of batchIterate settles: the step after it is taken.
BatchFairSpec == BatchSpec /\ WF_vars(BatchNext)

\* ceil(a / b)
Ceil(a, b) == (a + b - 1) \div b

\* The indices 0, 1, ... in ascending order, each once.
Ascending(indices) == \A i \in DOMAIN indices : indices[i] = i - 1

\* C26: batchIterate with batchSize >= 1 comes to its end, or to a callback
\* or multicall that throws; its j-th multicall covers the indices from
\* (j - 1) * batchSize up to j * batchSize or length, whichever is less; both
\* callbacks get the indices 0, 1, ... in ascending order, each once, the
\* indices of a batch are processed after its multicall, and at the end
\* ceil(length / batchSize) multicalls have been sent and both callbacks have
\* had every index below length.
C26_BatchesCoverEveryIndexOnce ==
  /\ [](batchSize >= 1
          => /\ Ascending(made)
             /\ Ascending(processed)
             /\ Len(multicalls) <= Ceil(batchLength, batchSize)
             /\ \A j \in DOMAIN multicalls :
                   /\ multicalls[j].start = (j - 1) * batchSize
                   /\ multicalls[j].end = Min({j * batchSize, batchLength})
                   /\ multicalls[j].end - multicalls[j].start <= batchSize
             /\ Len(processed) <= (IF multicalls = <<>> THEN 0 ELSE multicalls[Len(multicalls)].end)
             /\ Len(processed) <= Len(made)
             /\ batchPc = "done"
                  => /\ Len(multicalls) = Ceil(batchLength, batchSize)
                     /\ Len(made) = batchLength
                     /\ Len(processed) = batchLength)
  /\ (batchSize >= 1) => <>(batchPc \in {"done", "threw"})

\* Three indices in batches of two: two multicalls, the second of one index.
C26_Witness ==
  /\ batchPc = "done"
  /\ batchLength = 3
  /\ batchSize = 2
  /\ multicalls = <<[start |-> 0, end |-> 2], [start |-> 2, end |-> 3]>>
  /\ made = <<0, 1, 2>>
  /\ processed = <<0, 1, 2>>

\* The nodes a round of makeDependencyList appends to deps.
Appended == SubSeq(deps', Len(deps) + 1, Len(deps'))

\* A round of makeDependencyList that appends its candidates.
PeelingRound == pc = "dependency" /\ pc' = "dependency" /\ Len(deps') > Len(deps)

\* The position of the node in the registry.
PositionIn(list, id) == CHOOSE n \in DOMAIN list : list[n].id = id

SendOfPending ==
  /\ outcome'.op = "send"
  /\ findSend(state, outcome'.id) # 0
  /\ ~state.sends[findSend(state, outcome'.id)].success

\* The transaction recorded for the id of the step.
RecordedSend == txs[state.sends[findSend(state, outcome'.id)].txHash]

\* C28: for a send id that is recorded and not yet successful, send invokes
\* its callback again only when the recorded transaction was found by the
\* provider and did not succeed; while the recorded transaction is not found
\* it submits no second transaction.
C28_ResubmitsOnlyAfterRevert ==
  [][(SendOfPending /\ outcome'.invoked = 1)
       => (RecordedSend.fate # "dropped" /\ RecordedSend.fate = "reverted")]_vars

\* The step is a deploy or a send that submits a transaction for an id.
Submits ==
  /\ txs' # txs
  /\ outcome'.op \in {"deploy", "send"}
  /\ outcome'.id # NoId

\* The records of the step's id after it, in a state of the helper or a file.
RecordsAfter(_state) ==
  IF outcome'.op = "deploy"
  THEN {_state.deployments[n] : n \in {k \in DOMAIN _state.deployments : _state.deployments[k].id = outcome'.id}}
  ELSE {_state.sends[n] : n \in {k \in DOMAIN _state.sends : _state.sends[k].id = outcome'.id}}

\* C29: whenever send or deploy submits a transaction for a non-empty id, the
\* txHash of that id's record afterwards, in memory and in the state file, is
\* the hash of the transaction just submitted, also when the id was recorded
\* before.
C29_RecordedHashIsLatest ==
  [][Submits
       => /\ RecordsAfter(state') # {}
          /\ \A rec \in RecordsAfter(state') : rec.txHash = Len(txs')
          /\ RecordsAfter(files'[InfoFileName(alternativeInfoFileID)]) # {}
          /\ \A rec \in RecordsAfter(files'[InfoFileName(alternativeInfoFileID)]) :
                rec.txHash = Len(txs')]_vars

\* A round of the while loop of makeDependencyList begins.
RoundBegins == pc = "dependency" /\ Len(dict) > 0

\* The round moved at least one node from the unordered set to the emission
\* order, and no node was lost or made.
MovedSome ==
  /\ pc' = "dependency"
  /\ Len(deps') > Len(deps)
  /\ Len(dict') < Len(dict)
  /\ Len(dict') + Len(deps') = Len(dict) + Len(deps)
  /\ round' = round + 1

\* The round failed with the cyclic-dependency error.
FailedCyclic == pc' = "crashed" /\ error' = "cyclic" /\ round' = round

\* C30: leveling always terminates: every round either moves at least one
\* node from the unordered set to the emission order or fails with the
\* cyclic-dependency error, so the rounds run never outnumber the nodes
\* moved, and at most N rounds run for N registry nodes.
C30_LevelingTerminates ==
  /\ [][RoundBegins => (MovedSome \/ FailedCyclic)]_vars
  /\ [](pc = "dependency" => round <= Len(deps))
  /\ (pc = "dependency") ~> (pc # "dependency")

\* Leveling has emptied the unordered set in more than one round.
C30_Witness ==
  /\ pc = "dependency"
  /\ Len(dict) = 0
  /\ round >= 2
  /\ Len(deps) > round

\* C31: scanning one file terminates for every finite input; for an import
\* statement whose terminator never appears before the end of the file the
\* gathering of following lines stops at the end of the file: the line index
\* never passes lines.length.
C31_GatheringStopsAtEndOfFile ==
  /\ scanN <= Len(scanLines) + 1
  /\ scanPc = "unterminated" => scanN <= Len(scanLines)

\* No two records of a list have the same id.
UniqueIds(list) == \A k, m \in DOMAIN list : list[k].id = list[m].id => k = m

\* C32: in every state reached by init, useAlternativeInfoFileID, deploy,
\* call and send, switching to another state file, back, and to the same file
\* again included, no two records of the same list (deployments, calls or
\* sends) have the same id.
C32_OneRecordPerId ==
  /\ UniqueIds(state.deployments)
  /\ UniqueIds(state.calls)
  /\ UniqueIds(state.sends)

\* The step is a deploy, a call or a send with an undefined or empty id.
WithoutId == outcome'.op \in {"deploy", "call", "send"} /\ outcome'.id = NoId

\* C33: deploy, call and send with an undefined or empty id never consult or
\* skip on recorded state: the callback runs, no recorded transaction is
\* asked for, and the deployments, calls and sends recorded, the deployed log
\* and the state files are as they were.
C33_NoIdRunsAndRecordsNothing ==
  [][WithoutId
       => /\ outcome'.invoked = 1
          /\ outcome'.asked = 0
          /\ state' = state
          /\ deployedLog' = deployedLog
          /\ files' = files]_vars

\* A send without an id has submitted a second transaction, after a send that
\* was recorded as successful under an id.
C33_Witness ==
  /\ outcome = Outcome("send", NoId, Returned("boolean", 1), 1, 0)
  /\ Len(txs) = 2
  /\ Len(state.sends) = 1
  /\ state.sends[1].success
  /\ state.sends[1].txHash = 1

====
